---- MODULE Spec2Model ----
(***************************************************************************)
(* A model of the news crawler: the CrawlerEngine (src/crawler/engine.ts), *)
(* the article repositories (database/json-repository, postgres-repository)*)
(* the Scheduler that drives a pass over the configured sites, and the     *)
(* summarization client (ai/qwen.ts).                                      *)
(*                                                                         *)
(* Specifications:                                                         *)
(*   SpecCrawl     one CrawlerEngine.crawl() run on an arbitrary site      *)
(*   SpecStoreSeq  one caller using the article repository               *)
(*   SpecStore     two callers using the article repository at once      *)
(*   SpecSched     one Scheduler.crawlAll pass over the configured sites   *)
(*   SpecSummary   one generateSummaryBatch call on an arbitrary batch     *)
(*   SpecSummaryFair  the same, every enabled step eventually taken        *)
(*   SpecEngine    one CrawlerEngine instance: crawl(), close(), crawl()   *)
(*   SpecOrder     one crawl() run over pages linking to two articles      *)
(*   SpecList      CrawlerEngine.crawlListPage on a given rendered page    *)
(*   SpecDetail    CrawlerEngine.crawlDetailPage on a given detail page    *)
(*   SpecDate      CrawlerEngine.parseDate on a given text                 *)
(*   SpecPages     CrawlerEngine.getPageUrls on a given pagination         *)
(*   SpecCrawlFair one crawl() run, every enabled step eventually taken    *)
(*   SpecJson      one process calling JsonArticleRepository               *)
(*   SpecBatch     one PostgresArticleRepository.saveBatch call            *)
(*   SpecCron      Scheduler.start / stop / getStatus and the cron task    *)
(***************************************************************************)
EXTENDS Integers, Sequences, FiniteSets, TLC

VARIABLES
    \* ---- CrawlerEngine ------------------------------------------------
    config,        \* this.config (WebsiteConfig), read-only
    browser,       \* this.browser  # null
    context,       \* this.context  # null
    epc,           \* position of crawl(): new, pageLoop, list, extract,
                   \*   itemLoop, detail, delay, done, threw; of close():
                   \*   closed, closeThrew
    error,         \* message of the exception crawl() rejected with
    pageUrls,      \* const pageUrls = this.getPageUrls()
    pageIdx,       \* index of the for-of over pageUrls (1-based)
    listArticles,  \* const listArticles = await this.crawlListPage(pageUrl)
    elsLeft,       \* elements of the open list page not yet extracted
    candIdx,       \* index of the for-of over listArticles (1-based)
    allArticles,   \* const allArticles: Article[]
    lastDetail,    \* what the latest crawlDetailPage call returned
    listVisits,    \* number of crawlListPage calls of this run
    detailFetches, \* number of crawlDetailPage calls of this run
    pageBase,      \* allArticles.length when the current list page was opened
    \* ---- CrawlerEngine, observed ---------------------------------------
    openPages,     \* pages got from context.newPage() and not yet closed
    maxOpen,       \* most pages open at once so far
    sessions,      \* browsers got from chromium.launch() and not yet closed
    sinceFetch,    \* ms crawl() has waited in its own delay since the latest
                   \*   crawlDetailPage call (0: none)
    lastFetched,   \* URL of the latest page.goto of this run
    runs,          \* crawl() calls made on this instance
    navFailed      \* the latest fetch of this run got to its page.goto,
                   \*   which rejected

engineObs == <<openPages, maxOpen, sessions, sinceFetch, lastFetched, runs,
              navFailed>>

engineVars == <<config, browser, context, epc, error, pageUrls, pageIdx, listArticles,
                elsLeft, candIdx, allArticles, lastDetail, listVisits,
                detailFetches, pageBase, engineObs>>

VARIABLES
    \* ---- article repository ------------------------------------------
    storageType,   \* appConfig.storageType: "json" or "postgres"
    store,         \* the articles table / data/articles.json, in insertion order
    call,          \* per caller: the repository call it is in and its locals
    hist,          \* the saveIfNotExists calls that returned, oldest first
    ncalls         \* repository calls started so far

storeVars == <<storageType, store, call, hist, ncalls>>

VARIABLES
    \* ---- Scheduler ---------------------------------------------------
    sites,         \* configLoader.websiteConfigs: <<[name, cfg, enabled]>>
    apiKey,        \* appConfig.qwen.apiKey is configured
    spc,           \* position of crawlAll / crawlWebsite
    siteIdx,       \* index of crawlAll's for-of over the enabled configs
    articles,      \* const articles = await engine.crawl()
    articlesFound, \* let articlesFound
    articlesSaved, \* let articlesSaved
    status,        \* let status
    errorMessage,  \* let errorMessage
    idx,           \* index of the loop crawlWebsite / generateSummaryBatch is in
    summaryMap,    \* generateSummaryBatch's summaryMap: its keys, in Map order
    summarized,    \* the batch generateSummaryBatch was called with in this run
    inserted,      \* URLs saveIfNotExists returned true for in this run
    raised,        \* message of the exception raised inside this run's try
    logs           \* the CrawlRunLogs handed to crawlLogRepo.save, in order

VARIABLES
    \* ---- Scheduler, the cron task ---------------------------------------
    schedulerEnabled, \* appConfig.scheduler.enabled
    tasks,         \* this.tasks: the Map, as its entries [name, task]
    scheduled,     \* the tasks cron.schedule created that are not stopped
    created,       \* tasks cron.schedule has created so far
    ticks          \* times a scheduled task's callback has been fired

cronVars == <<schedulerEnabled, tasks, scheduled, created, ticks>>

schedVars == <<sites, apiKey, spc, siteIdx, articles, articlesFound,
               articlesSaved, status, errorMessage, idx, summaryMap,
               summarized, inserted, raised, logs, cronVars>>

\* no cron task has been asked for
CronParked ==
    /\ schedulerEnabled = FALSE
    /\ tasks = {}
    /\ scheduled = {}
    /\ created = 0
    /\ ticks = 0

VARIABLES
    \* ---- AIService (observation of generateSummaryBatch) --------------
    aiEvent,       \* what the client did last: none, nourl (continue), skip
                   \*   (generateSummary returned without a request), the
                   \*   backend's answer to a request (ok, empty, rate, fail),
                   \*   backoff (sleep 10000), delay (sleep 1000)
    retries,       \* rate-limit answers for the article in hand, counted up
                   \*   to MaxRetries
    lastCalled     \* index of the article of the latest request if no
                   \*   sleep(1000) has followed it, else 0

aiVars == <<aiEvent, retries, lastCalled>>

VARIABLES
    \* ---- one method of the engine applied to given arguments ----------
    fn,            \* the method: none, parseDate, getPageUrls,
                   \*   crawlListPage, crawlDetailPage
    arg,           \* what it is applied to
    ret            \* <<what it returned>>; Pending until it has

unitVars == <<fn, arg, ret>>

vars == <<engineVars, storeVars, schedVars, aiVars, unitVars>>

-----------------------------------------------------------------------------
(* Bounds of the model                                                     *)

\* most elements a rendered list page holds
MaxCandidates == 3
\* largest maxArticles / maxPages / startPage a site config carries
MaxCap == 2
MaxPages == 2

\* article identities a site links to (the URL an href resolves to)
ArticleIds == {"u1", "u2"}

-----------------------------------------------------------------------------
(* Data                                                                    *)

\* An absent optional number (maxArticles, maxPages, startPage): undefined.
\* undefined and 0 are both falsy, which is all the code looks at.
Unset == 0

\* an Article without a summary
NoSummary == ""

\* A list-page URL: config.url, or urlPattern with {page} replaced by n, or
\* urlPattern left as it is when it holds no {page} placeholder.
UrlOf(kind, n) == [kind |-> kind, n |-> n]
SeedUrl == UrlOf("seed", 0)

\* crawlDetailPage's null
NoArticle == [ok |-> FALSE, url |-> "", title |-> "", content |-> ""]
MkArticle(u, t, c) == [ok |-> TRUE, url |-> u, title |-> t, content |-> c]

\* JavaScript truthiness of a string
Truthy(s) == s # ""

-----------------------------------------------------------------------------
(* CrawlerEngine.getPageUrls                                               *)

\* an optional number left out of the configuration, where it has to be
\* told from a configured 0
Undefined == -1

\* v || d
OrDefault(v, d) == IF v = Unset \/ v = Undefined THEN d ELSE v

\* (mutant) a getPageUrls that does not look at pagination.enabled
GetPageUrlsIgnoringEnabled(pagination) ==
    IF ~pagination.present THEN <<[kind |-> "seed", n |-> 0]>>
    ELSE IF pagination.urlPattern # "none"
         THEN [k \in 1..OrDefault(pagination.maxPages, 1) |->
                  [kind |-> "pattern", n |-> k]]
         ELSE <<[kind |-> "seed", n |-> 0]>>

RECURSIVE PatternUrls(_, _, _)
PatternUrls(pattern, i, maxPages) ==
    IF i > maxPages THEN <<>>
    ELSE <<IF pattern = "placeholder" THEN UrlOf("pattern", i)
           ELSE UrlOf("raw", 0)>>
         \o PatternUrls(pattern, i + 1, maxPages)

\* pagination: [present, enabled, urlPattern, maxPages, startPage], urlPattern
\* one of "none", "placeholder" (holds {page}), "plain" (no placeholder)
GetPageUrls(pagination) ==
    IF ~pagination.present \/ ~pagination.enabled THEN <<SeedUrl>>
    ELSE IF pagination.urlPattern # "none"
         THEN PatternUrls(pagination.urlPattern,
                          OrDefault(pagination.startPage, 1),
                          OrDefault(pagination.maxPages, 1))
         ELSE <<SeedUrl>>

-----------------------------------------------------------------------------
(* CrawlerEngine.parseDate                                                 *)

\* A text is a sequence of characters.  The digits, "-", "/", " " and the
\* letters stand for themselves; "nian", "yue", "ri" are the characters 年,
\* 月, 日, "dot" is the middle dot ·, and "prefix" is a substring
\* /发布(时间|日期)[：:]/ matches, as one element.
Digits == {"0", "1", "2", "3", "4", "5"}
DatePrefix == "prefix"
DigitVal(c) ==
    CASE c = "0" -> 0 [] c = "1" -> 1 [] c = "2" -> 2 [] c = "3" -> 3
      [] c = "4" -> 4 [] c = "5" -> 5
\* the number a sequence of digits is the decimal form of
RECURSIVE Num(_)
Num(ds) ==
    IF ds = <<>> THEN 0
    ELSE 10 * Num(SubSeq(ds, 1, Len(ds) - 1)) + DigitVal(ds[Len(ds)])

\* A raw date text: null / undefined, or a string
NullText == [isNull |-> TRUE, text |-> <<>>]
Text(chars) == [isNull |-> FALSE, text |-> chars]

\* A Date: a calendar day at midnight of a zone; the Date whose time value is
\* NaN ("Invalid Date"); and undefined
Date(y, m, d, zone) == [y |-> y, m |-> m, d |-> d, zone |-> zone]
InvalidDate == Date(0, 0, 0, "NaN")
NoDate == Date(0, 0, 0, "undefined")
DaysIn(y, m) ==
    IF m = 2 THEN (IF y % 4 = 0 /\ (y % 100 # 0 \/ y % 400 = 0) THEN 29 ELSE 28)
    ELSE IF m \in {4, 6, 9, 11} THEN 30 ELSE 31
\* !isNaN(date.getTime()), for a Date
IsValidDate(date) ==
    /\ date.zone \in {"utc", "local"}
    /\ date.m \in 1..12
    /\ date.d \in 1..DaysIn(date.y, date.m)

\* .replace(/发布(时间|日期)[：:]/g, "")
RemovePrefixes(s) == SelectSeq(s, LAMBDA c : c # DatePrefix)
\* .replace(/[·\s]+$/, "")
RECURSIVE StripTrailingNoise(_)
StripTrailingNoise(s) ==
    IF s # <<>> /\ s[Len(s)] \in {"dot", " "}
    THEN StripTrailingNoise(SubSeq(s, 1, Len(s) - 1))
    ELSE s
\* .trim()
RECURSIVE Trim(_)
Trim(s) ==
    IF s # <<>> /\ s[1] = " " THEN Trim(Tail(s))
    ELSE IF s # <<>> /\ s[Len(s)] = " " THEN Trim(SubSeq(s, 1, Len(s) - 1))
    ELSE s
Cleaned(chars) == Trim(StripTrailingNoise(RemovePrefixes(chars)))

\* /(\d{4})[年/-](\d{1,2})[月/-](\d{1,2})[日]?/ tried at position i: the
\* three groups, or <<>> when it does not match there
IsDigitAt(s, i) == i <= Len(s) /\ s[i] \in Digits
IsCharAt(s, i, set) == i <= Len(s) /\ s[i] \in set
DayAt(s, i) == IF IsDigitAt(s, i + 1) THEN SubSeq(s, i, i + 1) ELSE SubSeq(s, i, i)
MatchAt(s, i) ==
    IF ~(/\ \A k \in i..(i + 3) : IsDigitAt(s, k)
         /\ IsCharAt(s, i + 4, {"nian", "/", "-"})
         /\ IsDigitAt(s, i + 5))
    THEN <<>>
    ELSE IF /\ IsDigitAt(s, i + 6) /\ IsCharAt(s, i + 7, {"yue", "/", "-"})
            /\ IsDigitAt(s, i + 8)
         THEN <<SubSeq(s, i, i + 3), SubSeq(s, i + 5, i + 6), DayAt(s, i + 8)>>
         ELSE IF IsCharAt(s, i + 6, {"yue", "/", "-"}) /\ IsDigitAt(s, i + 7)
              THEN <<SubSeq(s, i, i + 3), SubSeq(s, i + 5, i + 5), DayAt(s, i + 7)>>
              ELSE <<>>
\* cleaned.match(...): the groups of the leftmost match, or <<>> (null)
StrictMatch(s) ==
    LET at == {i \in 1..Len(s) : MatchAt(s, i) # <<>>}
    IN IF at = {} THEN <<>>
       ELSE MatchAt(s, CHOOSE i \in at : \A j \in at : i <= j)

\* new Date(`${y}-${m}-${d}`), the Dates it can be.  With two-digit month and
\* day the string has the ISO date-only form (midnight UTC), otherwise the
\* engine's own parser reads it (midnight local time).  A month outside
\* 1..12 or a day outside 1..31 gives the Invalid Date; a day past the end of
\* its month is rolled over into the next month or refused, by the engine.
DateOfGroups(groups) ==
    LET y == Num(groups[1])
        m == Num(groups[2])
        d == Num(groups[3])
        zone == IF Len(groups[2]) = 2 /\ Len(groups[3]) = 2 THEN "utc"
                ELSE "local"
    IN IF m \notin 1..12 \/ d \notin 1..31 THEN {InvalidDate}
       ELSE IF d <= DaysIn(y, m) THEN {Date(y, m, d, zone)}
       ELSE {InvalidDate, Date(y, m + 1, d - DaysIn(y, m), zone)}

\* new Date(cleaned) for a text the pattern does not match.  A text without
\* a digit (and without a month name: no letter of the alphabet here forms
\* one) is no date; what the engine makes of any other text is left to it.
SomeDate == Date(2001, 1, 1, "local")
GenericDate(s) ==
    IF \A i \in 1..Len(s) : s[i] \notin Digits THEN {InvalidDate}
    ELSE {InvalidDate, SomeDate}

\* (mutant) a parseDate that tries new Date(cleaned) before the pattern
ParseDateGenericFirst(dateStr) ==
    IF dateStr.isNull \/ dateStr.text = <<>> THEN {NoDate}
    ELSE LET cleaned == Cleaned(dateStr.text)
             match == StrictMatch(cleaned)
         IN UNION {IF date # InvalidDate THEN {date}
                   ELSE IF match # <<>> THEN DateOfGroups(match)
                   ELSE {NoDate} : date \in GenericDate(cleaned)}

\* parseDate(dateStr): the values it can return
ParseDate(dateStr) ==
    IF dateStr.isNull \/ dateStr.text = <<>> THEN {NoDate}
    ELSE LET cleaned == Cleaned(dateStr.text)
             match == StrictMatch(cleaned)
         IN IF match # <<>> THEN DateOfGroups(match)
            ELSE {IF date # InvalidDate THEN date ELSE NoDate :
                     date \in GenericDate(cleaned)}

-----------------------------------------------------------------------------
(* CrawlerEngine.crawlListPage: the extraction of one element               *)

\* An element of the list page: how its title extraction ends and what its
\* link is.  titleOut: "throws" ($eval finds no match), "empty", "text".
\* link: "nolink" (no descendant matches linkSelector), "nohref" (no href
\* attribute), or [abs, id]: an absolute or relative href of article id.
Hrefs == {[abs |-> a, id |-> i] : a \in BOOLEAN, i \in ArticleIds}
NoLink == [abs |-> FALSE, id |-> "nolink"]
NoHref == [abs |-> FALSE, id |-> "nohref"]
\* the elements whose link, if any, leads to an article of ids
ElementsOver(ids) ==
    [titleOut : {"throws", "empty", "text"},
     link : {h \in Hrefs : h.id \in ids} \cup {NoLink, NoHref}]

\* href.startsWith("http") ? href : new URL(href, baseUrl).href
ResolveUrl(href) == href.id

\* listPage: which of the optional selectors config.listPage sets.  An
\* element also carries how its date and description extractions end:
\* dateOut, descOut: "throws" ($eval finds no match) or "text".
ListPageConfigs == [dateSelector : BOOLEAN, descriptionSelector : BOOLEAN]
NoOptionalSelectors == [dateSelector |-> FALSE, descriptionSelector |-> FALSE]
\* an optional field that was not extracted (undefined; falsy like "")
NoField == ""

\* (mutant) a loop body whose optional extractions are not wrapped in try/catch
ExtractListItemStrictOptionals(listPage, el) ==
    IF \/ el.titleOut = "throws"
       \/ listPage.dateSelector /\ el.dateOut = "throws"
       \/ listPage.descriptionSelector /\ el.descOut = "throws"
    THEN <<>>
    ELSE IF el.titleOut = "text" /\ el.link \in Hrefs
         THEN <<[title |-> "T", url |-> ResolveUrl(el.link),
                 date |-> IF listPage.dateSelector THEN "2024-3-5" ELSE NoField,
                 description |-> IF listPage.descriptionSelector THEN "text"
                                 ELSE NoField]>>
         ELSE <<>>

\* The body of `for (const element of articleElements)`: the ListArticle one
\* element yields, as a sequence of 0 or 1 candidates
ExtractListItem(listPage, el) ==
    LET title == IF el.titleOut = "text" THEN "T" ELSE ""
        url   == IF el.link \in Hrefs THEN ResolveUrl(el.link) ELSE ""
        date  == IF listPage.dateSelector /\ el.dateOut = "text"
                 THEN "2024-3-5" ELSE NoField
        description == IF listPage.descriptionSelector /\ el.descOut = "text"
                       THEN "text" ELSE NoField
    IN IF el.titleOut = "throws" THEN <<>>
       ELSE IF Truthy(title) /\ Truthy(url)
            THEN <<[title |-> title, url |-> url, date |-> date,
                    description |-> description]>>
            ELSE <<>>

\* The same for a site that sets neither optional selector, the candidate
\* reduced to its title and url
ExtractItem(el) ==
    LET full == ExtractListItem(NoOptionalSelectors,
                                [titleOut |-> el.titleOut, link |-> el.link,
                                 dateOut |-> "throws", descOut |-> "throws"])
    IN [i \in 1..Len(full) |-> [title |-> full[i].title, url |-> full[i].url]]

\* (mutant) a loop without the try/catch around its body: the first element
\* whose title extraction throws ends it, the outer catch keeps what was got
RECURSIVE CrawlListPageArticlesAborting(_, _)
CrawlListPageArticlesAborting(listPage, els) ==
    IF els = <<>> \/ Head(els).titleOut = "throws" THEN <<>>
    ELSE ExtractListItem(listPage, Head(els))
         \o CrawlListPageArticlesAborting(listPage, Tail(els))

\* crawlListPage from page.$$(articleSelector) on: the articles it returns
\* for a page holding the elements els
RECURSIVE CrawlListPageArticles(_, _)
CrawlListPageArticles(listPage, els) ==
    IF els = <<>> THEN <<>>
    ELSE ExtractListItem(listPage, Head(els))
         \o CrawlListPageArticles(listPage, Tail(els))

-----------------------------------------------------------------------------
(* CrawlerEngine.crawlDetailPage: the article one detail page yields        *)

TitleOuts == {"throws", "nomatch", "empty", "text"}
ContentOuts == {"throws", "nomatch", "empty", "text"}

\* (mutant) a selector mode whose content extraction is not wrapped in a
\* try/catch: a throw reaches the outer catch, which returns null
DetailArticleContentAborts(cfg, articleUrl, listArticle, nav, titleOut, contentOut) ==
    IF ~nav \/ contentOut = "throws" THEN NoArticle
    ELSE MkArticle(articleUrl,
                   CASE titleOut = "text" -> "D"
                     [] titleOut = "throws" -> listArticle.title
                     [] OTHER -> "",
                   IF contentOut = "text" THEN "C" ELSE "")

\* (mutant) a crawlDetailPage that goes on extracting after page.goto rejected
DetailArticleNavIgnored(cfg, articleUrl, listArticle, nav, titleOut, contentOut) ==
    MkArticle(articleUrl,
              IF titleOut = "text" THEN "D" ELSE "",
              IF contentOut = "text" THEN "C" ELSE "")

\* nav: page.goto succeeded.  titleOut / contentOut: how the two extractions
\* end; with useReadability contentOut "throws" is page.content()/JSDOM/
\* Readability throwing, which the outer catch turns into null.
DetailArticle(cfg, articleUrl, listArticle, nav, titleOut, contentOut) ==
    LET title == CASE titleOut = "text" -> "D"
                   [] titleOut = "throws" -> listArticle.title
                   [] OTHER -> ""
        content == IF contentOut = "text" THEN "C" ELSE ""
    IN IF ~nav THEN NoArticle
       ELSE IF cfg.useReadability /\ contentOut = "throws" THEN NoArticle
       ELSE MkArticle(articleUrl, title, content)

\* (mutant) a date extraction that prefers the list page's date
PublishDateListFirst(dateSelector, dateOut, dateText, listDate) ==
    LET fromList == ParseDate(listDate)
        fromDetail == IF dateSelector /\ dateOut = "text"
                      THEN ParseDate(dateText) ELSE {NoDate}
    IN UNION {IF d # NoDate THEN {d} ELSE fromDetail : d \in fromList}

\* article.publish_date, the values it can get.  dateSelector: whether
\* config.detailPage sets one; dateOut: how the extraction of the date
\* element ends ("throws", "nomatch", "text"); dateText: the element's text;
\* listDate: listArticle?.date.  undefined is NoDate.
PublishDate(dateSelector, dateOut, dateText, listDate) ==
    LET fromDetail == IF dateSelector /\ dateOut = "text"
                      THEN ParseDate(dateText) ELSE {NoDate}
    IN UNION {IF d # NoDate THEN {d}
              ELSE IF listDate.isNull \/ listDate.text = <<>> THEN {NoDate}
              ELSE ParseDate(listDate) : d \in fromDetail}

-----------------------------------------------------------------------------
(* CrawlerEngine.initBrowser                                               *)

NoError == ""

\* (mutant) an initBrowser without its `if (this.browser) return`
InitBrowserAlwaysLaunches(b, c, launch, newCtx) ==
    IF ~launch THEN <<b, c, "launch failed", 0>>
    ELSE IF ~newCtx THEN <<TRUE, c, "newContext failed", 1>>
    ELSE <<TRUE, TRUE, NoError, 1>>

\* launch / newCtx: whether chromium.launch and browser.newContext succeed.
\* Returns <<browser', context', message of the exception thrown, browsers
\* launched by the call>>.
InitBrowser(b, c, launch, newCtx) ==
    IF b THEN <<b, c, NoError, 0>>
    ELSE IF ~launch THEN <<FALSE, c, "launch failed", 0>>
    ELSE IF ~newCtx THEN <<TRUE, c, "newContext failed", 1>>
    ELSE <<TRUE, TRUE, NoError, 1>>

\* await this.initBrowser(); if (!this.context) throw ...; context.newPage():
\* <<browser', context', message of the exception thrown, browsers launched>>
OpenPage(b, c, launch, newCtx, newPage) ==
    LET ib == InitBrowser(b, c, launch, newCtx)
    IN IF ib[3] # NoError THEN ib
       ELSE IF ~ib[2] THEN <<ib[1], ib[2], "context not initialised", ib[4]>>
       ELSE IF ~newPage THEN <<ib[1], ib[2], "newPage failed", ib[4]>>
       ELSE ib

\* CrawlerEngine.close() from <<browser, context>> = <<b, c>> holding sess
\* browsers; ctxOk / brOk: whether context.close() and browser.close()
\* succeed.  <<browser', context', message of the exception thrown, sessions'>>
CloseOutcome(b, c, sess, ctxOk, brOk) ==
    IF c /\ ~ctxOk THEN <<b, c, "close failed", sess>>
    ELSE IF b /\ ~brOk THEN <<b, c, "close failed", sess>>
    ELSE <<FALSE, FALSE, NoError, 0>>

\* the larger of two numbers
Max(a, b) == IF a >= b THEN a ELSE b

\* this.config.delay || 2000
DefaultDelay == 2000
ItemDelay(cfg) == OrDefault(cfg.delay, DefaultDelay)

\* the ways opening a page can end from <<browser, context>> = <<b, c>>
OpenOutcomes(b, c) ==
    {OpenPage(b, c, launch, newCtx, newPage) :
        launch \in BOOLEAN, newCtx \in BOOLEAN, newPage \in BOOLEAN}

-----------------------------------------------------------------------------
(* CrawlerEngine.crawl                                                     *)

\* (mutant) the cap compared with > instead of >=
CapReachedStrict(cfg, batch) ==
    cfg.maxArticles # Unset /\ Len(batch) > cfg.maxArticles

\* this.config.maxArticles && allArticles.length >= this.config.maxArticles
CapReached(cfg, batch) ==
    cfg.maxArticles # Unset /\ Len(batch) >= cfg.maxArticles

\* article && article.title && article.content
Complete(a) == a.ok /\ Truthy(a.title) /\ Truthy(a.content)

\* const allArticles = []; const pageUrls = this.getPageUrls();
CrawlStart ==
    /\ epc = "new"
    /\ pageUrls' = GetPageUrls(config.pagination)
    /\ allArticles' = <<>>
    /\ pageIdx' = 1
    /\ epc' = "pageLoop"
    /\ UNCHANGED <<config, error, browser, context, listArticles, elsLeft, candIdx, lastDetail,
                   listVisits, detailFetches, pageBase>>
    /\ UNCHANGED engineObs
    /\ UNCHANGED <<storeVars, schedVars, aiVars, unitVars>>

\* (mutant) the page loop without its cap check
CrawlPageLoopNoCap ==
    /\ epc = "pageLoop"
    /\ IF pageIdx > Len(pageUrls) THEN epc' = "done" ELSE epc' = "list"
    /\ UNCHANGED <<config, error, browser, context, pageUrls, pageIdx, listArticles,
                   elsLeft, candIdx, allArticles, lastDetail, listVisits,
                   detailFetches, pageBase>>
    /\ UNCHANGED engineObs
    /\ UNCHANGED <<storeVars, schedVars, aiVars, unitVars>>

\* head of `for (const pageUrl of pageUrls)`: exhausted, cap reached (break),
\* or go on to fetch the list page
CrawlPageLoop ==
    /\ epc = "pageLoop"
    /\ IF pageIdx > Len(pageUrls) \/ CapReached(config, allArticles)
       THEN epc' = "done"
       ELSE epc' = "list"
    /\ UNCHANGED <<config, error, browser, context, pageUrls, pageIdx, listArticles,
                   elsLeft, candIdx, allArticles, lastDetail, listVisits,
                   detailFetches, pageBase>>
    /\ UNCHANGED engineObs
    /\ UNCHANGED <<storeVars, schedVars, aiVars, unitVars>>

\* await this.crawlListPage(pageUrl), up to page.$$(articleSelector):
\* initBrowser, context.newPage, page.goto, and the elements the page holds
CrawlListOpen(maxCands) ==
    /\ epc = "list"
    /\ listVisits' = listVisits + 1
    /\ \E op \in OpenOutcomes(browser, context) :
         /\ browser' = op[1]
         /\ context' = op[2]
         /\ error' = op[3]
         /\ sessions' = sessions + op[4]
         /\ IF op[3] # NoError
            THEN \* initBrowser or context.newPage threw
                 /\ epc' = "threw"
                 /\ navFailed' = FALSE
                 /\ UNCHANGED <<listArticles, candIdx, elsLeft, openPages,
                                maxOpen, lastFetched>>
            ELSE \E nav \in BOOLEAN, n \in 0..maxCands :
                 /\ listArticles' = <<>>
                 /\ candIdx' = 1
                 /\ elsLeft' = IF nav THEN n ELSE 0
                 /\ epc' = "extract"
                 /\ openPages' = openPages + 1
                 /\ maxOpen' = Max(maxOpen, openPages + 1)
                 /\ lastFetched' = pageUrls[pageIdx]
                 /\ navFailed' = ~nav
    /\ pageBase' = Len(allArticles)
    /\ UNCHANGED <<config, pageUrls, pageIdx, allArticles, lastDetail,
                   detailFetches, sinceFetch, runs>>
    /\ UNCHANGED <<storeVars, schedVars, aiVars, unitVars>>

\* one turn of `for (const element of articleElements)`
CrawlListItem(elements) ==
    /\ epc = "extract"
    /\ elsLeft > 0
    /\ \E el \in elements : listArticles' = listArticles \o ExtractItem(el)
    /\ elsLeft' = elsLeft - 1
    /\ UNCHANGED <<config, error, browser, context, epc, pageUrls, pageIdx, candIdx,
                   allArticles, lastDetail, listVisits, detailFetches, pageBase>>
    /\ UNCHANGED engineObs
    /\ UNCHANGED <<storeVars, schedVars, aiVars, unitVars>>

\* (mutant) a crawlListPage that returns without closing its page
CrawlListReturnKeepsPage ==
    /\ epc = "extract"
    /\ elsLeft = 0
    /\ epc' = "itemLoop"
    /\ UNCHANGED <<config, error, browser, context, pageUrls, pageIdx, listArticles,
                   candIdx, elsLeft, allArticles, lastDetail, listVisits,
                   detailFetches, pageBase>>
    /\ UNCHANGED engineObs
    /\ UNCHANGED <<storeVars, schedVars, aiVars, unitVars>>

\* finally { await page.close() }; return articles
CrawlListReturn ==
    /\ epc = "extract"
    /\ elsLeft = 0
    /\ epc' = "itemLoop"
    /\ openPages' = openPages - 1
    /\ UNCHANGED <<config, error, browser, context, pageUrls, pageIdx, listArticles,
                   candIdx, elsLeft, allArticles, lastDetail, listVisits,
                   detailFetches, pageBase>>
    /\ UNCHANGED <<maxOpen, sessions, sinceFetch, lastFetched, runs, navFailed>>
    /\ UNCHANGED <<storeVars, schedVars, aiVars, unitVars>>

\* (mutant) the candidate loop without its cap check
CrawlItemLoopNoCap ==
    /\ epc = "itemLoop"
    /\ IF candIdx > Len(listArticles)
       THEN /\ pageIdx' = pageIdx + 1
            /\ epc' = "pageLoop"
       ELSE /\ epc' = "detail"
            /\ UNCHANGED pageIdx
    /\ UNCHANGED <<config, error, browser, context, pageUrls, listArticles, elsLeft,
                   candIdx, allArticles, lastDetail, listVisits, detailFetches,
                   pageBase>>
    /\ UNCHANGED engineObs
    /\ UNCHANGED <<storeVars, schedVars, aiVars, unitVars>>

\* head of `for (const listArticle of listArticles)`
CrawlItemLoop ==
    /\ epc = "itemLoop"
    /\ IF candIdx > Len(listArticles) \/ CapReached(config, allArticles)
       THEN /\ pageIdx' = pageIdx + 1
            /\ epc' = "pageLoop"
       ELSE /\ epc' = "detail"
            /\ UNCHANGED pageIdx
    /\ UNCHANGED <<config, error, browser, context, pageUrls, listArticles, elsLeft,
                   candIdx, allArticles, lastDetail, listVisits, detailFetches, pageBase>>
    /\ UNCHANGED engineObs
    /\ UNCHANGED <<storeVars, schedVars, aiVars, unitVars>>

\* (mutant) an accumulation that puts the new article first
AccumulateInFront(batch, article) ==
    IF Complete(article) THEN <<article>> \o batch ELSE batch

\* (mutant) the completeness test without its content part
AccumulateIgnoringContent(batch, article) ==
    IF article.ok /\ Truthy(article.title) THEN Append(batch, article)
    ELSE batch

\* if (article && article.title && article.content) allArticles.push(article)
Accumulate(batch, article) ==
    IF Complete(article) THEN Append(batch, article) ELSE batch

\* const article = await this.crawlDetailPage(listArticle.url, listArticle)
CrawlDetailPage ==
    /\ epc = "detail"
    /\ detailFetches' = detailFetches + 1
    /\ \E op \in OpenOutcomes(browser, context) :
         /\ browser' = op[1]
         /\ context' = op[2]
         /\ error' = op[3]
         /\ sessions' = sessions + op[4]
         /\ IF op[3] # NoError
            THEN \* initBrowser or context.newPage threw: crawl() rejects
                 /\ epc' = "threw"
                 /\ navFailed' = FALSE
                 /\ UNCHANGED <<allArticles, lastDetail, maxOpen, lastFetched>>
            ELSE \E nav \in BOOLEAN, titleOut \in TitleOuts,
                    contentOut \in ContentOuts :
                 LET la == listArticles[candIdx]
                     article == DetailArticle(config, la.url, la, nav,
                                              titleOut, contentOut)
                 IN /\ lastDetail' = article
                    /\ allArticles' = Accumulate(allArticles, article)
                    /\ epc' = "delay"
                    \* the page is open from newPage() to the finally's close()
                    /\ maxOpen' = Max(maxOpen, openPages + 1)
                    /\ lastFetched' = la.url
                    /\ navFailed' = ~nav
    /\ sinceFetch' = 0
    /\ UNCHANGED <<config, pageUrls, pageIdx, listArticles,
                   elsLeft, candIdx, listVisits, pageBase, openPages, runs>>
    /\ UNCHANGED <<storeVars, schedVars, aiVars, unitVars>>

\* (mutant) a delay whose timer never fires: crawl() stays in its await
CrawlDelayNeverResolves ==
    /\ epc = "delay"
    /\ FALSE
    /\ UNCHANGED vars

\* (mutant) a crawl() that waits only when the configuration sets a delay
CrawlDelayNoDefault ==
    /\ epc = "delay"
    /\ candIdx' = candIdx + 1
    /\ epc' = "itemLoop"
    /\ sinceFetch' = config.delay
    /\ UNCHANGED <<config, error, browser, context, pageUrls, pageIdx, listArticles,
                   elsLeft, allArticles, lastDetail, listVisits, detailFetches, pageBase>>
    /\ UNCHANGED <<openPages, maxOpen, sessions, lastFetched, runs, navFailed>>
    /\ UNCHANGED <<storeVars, schedVars, aiVars, unitVars>>

\* await this.delay(this.config.delay || 2000)
CrawlDelay ==
    /\ epc = "delay"
    /\ candIdx' = candIdx + 1
    /\ epc' = "itemLoop"
    /\ sinceFetch' = ItemDelay(config)
    /\ UNCHANGED <<config, error, browser, context, pageUrls, pageIdx, listArticles,
                   elsLeft, allArticles, lastDetail, listVisits, detailFetches, pageBase>>
    /\ UNCHANGED <<openPages, maxOpen, sessions, lastFetched, runs, navFailed>>
    /\ UNCHANGED <<storeVars, schedVars, aiVars, unitVars>>

CrawlNext(maxCands, elements) ==
    \/ CrawlStart
    \/ CrawlPageLoop
    \/ CrawlListOpen(maxCands)
    \/ CrawlListItem(elements)
    \/ CrawlListReturn
    \/ CrawlItemLoop
    \/ CrawlDetailPage
    \/ CrawlDelay

-----------------------------------------------------------------------------
(* The article repositories (JsonArticleRepository and                      *)
(* PostgresArticleRepository behind the ArticleRepository proxy)            *)

Urls == ArticleIds
\* an Article handed to the repository: url, title, content (no summary)
ArticleInputs == [url : Urls, title : {"T", "D"}, content : {"C"}]
\* the record an insert of art creates
NewRecord(art) ==
    [url |-> art.url, title |-> art.title, content |-> art.content,
     summary |-> NoSummary, updated |-> FALSE]
Summaries == {"s1"}

\* articles.some(a => a.url === url) / SELECT 1 FROM articles WHERE url = $1
ExistsByUrlNever(st, url) == FALSE
ExistsByUrl(st, url) == \E i \in 1..Len(st) : st[i].url = url

\* articles.findIndex(a => a.url === url); 0 for -1
FindIndex(st, url) ==
    IF ExistsByUrl(st, url)
    THEN CHOOSE i \in 1..Len(st) :
            st[i].url = url /\ \A j \in 1..(i - 1) : st[j].url # url
    ELSE 0

\* (mutant) save without the lookup of the URL: always an insert
SaveRecAlwaysInsert(type, st, art) == Append(st, NewRecord(art))

\* save(article).  json: read, update in place ({...old, ...article,
\* update_date}) or push, write.  postgres: INSERT ... ON CONFLICT (url) DO
\* UPDATE SET title, content, summary = EXCLUDED.summary (null), update_date.
SaveRec(type, st, art) ==
    LET i == FindIndex(st, art.url)
    IN IF i > 0
       THEN [st EXCEPT ![i] =
               [url |-> art.url, title |-> art.title, content |-> art.content,
                summary |-> IF type = "json" THEN st[i].summary ELSE NoSummary,
                updated |-> TRUE]]
       ELSE Append(st, NewRecord(art))

\* updateSummary(url, summary): the record of that URL, if any
UpdateSummaryRec(st, url, summary) ==
    [i \in 1..Len(st) |->
        IF st[i].url = url
        THEN [st[i] EXCEPT !.summary = summary, !.updated = TRUE]
        ELSE st[i]]

\* a caller that is in no repository call
Idle == [op |-> "idle", stage |-> "", batch |-> <<>>, idx |-> 0, count |-> 0,
         pre |-> <<>>]
InCall(op, stage, batch, pre) ==
    [op |-> op, stage |-> stage, batch |-> batch, idx |-> 1, count |-> 0,
     pre |-> pre]

\* What is kept of a saveIfNotExists call that returned: its URL and result,
\* whether the URL was stored when the call began, whether the store at the
\* return differs from the store at the call, and the records of that URL
\* in the store at the return.
Returned(url, result, before, after) ==
    [url |-> url, result |-> result,
     known |-> \E i \in 1..Len(before) : before[i].url = url,
     modified |-> after # before,
     stored |-> Cardinality({i \in 1..Len(after) : after[i].url = url})]

\* most repository calls of one run of the model, and the longest batch
MaxCalls == 3
MaxBatch == 2

\* a caller enters saveIfNotExists(article), save(article) or
\* saveBatch(articles)
StartCall(c, inputs) ==
    /\ call[c].op = "idle"
    /\ ncalls < MaxCalls
    /\ ncalls' = ncalls + 1
    /\ \/ \E art \in inputs :
            call' = [call EXCEPT ![c] =
                        InCall("saveIfNotExists", "exists", <<art>>, store)]
       \/ \E art \in inputs :
            call' = [call EXCEPT ![c] = InCall("save", "save", <<art>>, <<>>)]
       \/ \E b \in UNION {[1..n -> inputs] : n \in 0..MaxBatch} :
            call' = [call EXCEPT ![c] = InCall("saveBatch", "exists", b, <<>>)]
    /\ UNCHANGED <<storageType, store, hist>>
    /\ UNCHANGED <<engineVars, schedVars, aiVars, unitVars>>

\* saveIfNotExists: if (await this.existsByUrl(article.url)) return false
SaveIfNotExistsCheck(c) ==
    /\ call[c].op = "saveIfNotExists"
    /\ call[c].stage = "exists"
    /\ LET art == call[c].batch[1]
       IN IF ExistsByUrl(store, art.url)
          THEN /\ hist' = Append(hist, Returned(art.url, FALSE,
                                                 call[c].pre, store))
               /\ call' = [call EXCEPT ![c] = Idle]
          ELSE /\ call' = [call EXCEPT ![c].stage = "save"]
               /\ UNCHANGED hist
    /\ UNCHANGED <<storageType, store, ncalls>>
    /\ UNCHANGED <<engineVars, schedVars, aiVars, unitVars>>

\* saveIfNotExists: await this.save(article); return true
SaveIfNotExistsSave(c) ==
    /\ call[c].op = "saveIfNotExists"
    /\ call[c].stage = "save"
    /\ LET art == call[c].batch[1]
           st == SaveRec(storageType, store, art)
       IN /\ store' = st
          /\ hist' = Append(hist, Returned(art.url, TRUE, call[c].pre, st))
    /\ call' = [call EXCEPT ![c] = Idle]
    /\ UNCHANGED <<storageType, ncalls>>
    /\ UNCHANGED <<engineVars, schedVars, aiVars, unitVars>>

\* save(article) called on its own
SaveCall(c) ==
    /\ call[c].op = "save"
    /\ store' = SaveRec(storageType, store, call[c].batch[1])
    /\ call' = [call EXCEPT ![c] = Idle]
    /\ UNCHANGED <<storageType, hist, ncalls>>
    /\ UNCHANGED <<engineVars, schedVars, aiVars, unitVars>>

\* saveBatch: const exists = await this.existsByUrl(article.url), or the
\* end of the loop
SaveBatchCheck(c) ==
    /\ call[c].op = "saveBatch"
    /\ call[c].stage = "exists"
    /\ IF call[c].idx > Len(call[c].batch)
       THEN call' = [call EXCEPT ![c] = Idle]
       ELSE IF ExistsByUrl(store, call[c].batch[call[c].idx].url)
            THEN call' = [call EXCEPT ![c].idx = @ + 1]
            ELSE call' = [call EXCEPT ![c].stage = "save"]
    /\ UNCHANGED <<storageType, store, hist, ncalls>>
    /\ UNCHANGED <<engineVars, schedVars, aiVars, unitVars>>

\* saveBatch: await this.save(article); savedCount++
SaveBatchSave(c) ==
    /\ call[c].op = "saveBatch"
    /\ call[c].stage = "save"
    /\ store' = SaveRec(storageType, store, call[c].batch[call[c].idx])
    /\ call' = [call EXCEPT ![c].stage = "exists", ![c].idx = @ + 1,
                             ![c].count = @ + 1]
    /\ UNCHANGED <<storageType, hist, ncalls>>
    /\ UNCHANGED <<engineVars, schedVars, aiVars, unitVars>>

\* updateSummary(url, summary): one read-modify-write / one UPDATE
UpdateSummaryCall(c) ==
    /\ call[c].op = "idle"
    /\ ncalls < MaxCalls
    /\ ncalls' = ncalls + 1
    /\ \E u \in Urls, sm \in Summaries :
         store' = UpdateSummaryRec(store, u, sm)
    /\ UNCHANGED <<storageType, call, hist>>
    /\ UNCHANGED <<engineVars, schedVars, aiVars, unitVars>>

StoreNext(callers, inputs) ==
    \E c \in callers :
        \/ StartCall(c, inputs)
        \/ SaveIfNotExistsCheck(c)
        \/ SaveIfNotExistsSave(c)
        \/ SaveCall(c)
        \/ SaveBatchCheck(c)
        \/ SaveBatchSave(c)
        \/ UpdateSummaryCall(c)

Callers == {1, 2}

\* an empty store of either kind, nobody calling
StoreInit ==
    /\ storageType \in {"json", "postgres"}
    /\ store = <<>>
    /\ call = [c \in Callers |-> Idle]
    /\ hist = <<>>
    /\ ncalls = 0

-----------------------------------------------------------------------------
(* Site configurations                                                     *)

NoPagination == [present |-> FALSE, enabled |-> FALSE, urlPattern |-> "none",
                 maxPages |-> Unset, startPage |-> Unset]
Pagination(en, pat, maxP, startP) ==
    [present |-> TRUE, enabled |-> en, urlPattern |-> pat,
     maxPages |-> maxP, startPage |-> startP]

\* the pagination policies the crawl is run with: none, disabled, enabled
\* without a pattern, and patterns giving 0, 1 and MaxPages list pages
CrawlPaginations ==
    {NoPagination,
     Pagination(FALSE, "placeholder", MaxPages, Unset),
     Pagination(TRUE, "none", MaxPages, Unset),
     Pagination(TRUE, "placeholder", MaxPages, Unset),
     Pagination(TRUE, "placeholder", Unset, Unset),
     Pagination(TRUE, "placeholder", 1, MaxPages)}

SiteConfigs ==
    [maxArticles : 0..MaxCap, pagination : CrawlPaginations,
     useReadability : BOOLEAN, delay : {Unset}]

\* new CrawlerEngine(config)
EngineInit(cfg) ==
    /\ config = cfg
    /\ browser = FALSE
    /\ context = FALSE
    /\ epc = "new"
    /\ error = NoError
    /\ pageUrls = <<>>
    /\ pageIdx = 1
    /\ listArticles = <<>>
    /\ elsLeft = 0
    /\ candIdx = 1
    /\ allArticles = <<>>
    /\ lastDetail = NoArticle
    /\ listVisits = 0
    /\ detailFetches = 0
    /\ pageBase = 0
    /\ openPages = 0
    /\ maxOpen = 0
    /\ sessions = 0
    /\ sinceFetch = 0
    /\ lastFetched = ""
    /\ runs = 1
    /\ navFailed = FALSE

\* no engine has been constructed
EngineParked ==
    /\ config = [maxArticles |-> Unset, pagination |-> NoPagination,
                 useReadability |-> FALSE, delay |-> Unset]
    /\ browser = FALSE
    /\ context = FALSE
    /\ epc = "none"
    /\ error = NoError
    /\ pageUrls = <<>>
    /\ pageIdx = 1
    /\ listArticles = <<>>
    /\ elsLeft = 0
    /\ candIdx = 1
    /\ allArticles = <<>>
    /\ lastDetail = NoArticle
    /\ listVisits = 0
    /\ detailFetches = 0
    /\ pageBase = 0
    /\ openPages = 0
    /\ maxOpen = 0
    /\ sessions = 0
    /\ sinceFetch = 0
    /\ lastFetched = ""
    /\ runs = 1
    /\ navFailed = FALSE

\* no scheduler pass is run
SchedParked ==
    /\ sites = <<>>
    /\ apiKey = FALSE
    /\ spc = "none"
    /\ siteIdx = 1
    /\ articles = <<>>
    /\ articlesFound = 0
    /\ articlesSaved = 0
    /\ status = "success"
    /\ errorMessage = NoError
    /\ idx = 1
    /\ summaryMap = <<>>
    /\ summarized = <<>>
    /\ inserted = {}
    /\ raised = NoError
    /\ logs = <<>>
    /\ CronParked

\* the repository left alone
\* the summarization client is idle
AiParked ==
    /\ aiEvent = "none"
    /\ retries = 0
    /\ lastCalled = 0

\* no method is applied on its own
Pending == <<>>
\* the method applied has returned; what it returned
HasReturned == ret # Pending
Result == ret[1]
UnitParked ==
    /\ fn = "none"
    /\ arg = <<>>
    /\ ret = Pending

StoreParked ==
    /\ storageType = "json"
    /\ store = <<>>
    /\ call = [c \in Callers |-> Idle]
    /\ hist = <<>>
    /\ ncalls = 0

InitCrawl ==
    (\E cfg \in SiteConfigs : EngineInit(cfg)) /\ StoreParked /\ SchedParked
    /\ AiParked /\ UnitParked

NextCrawl == CrawlNext(MaxCandidates, ElementsOver({"u1"}))

SpecCrawl == InitCrawl /\ [][NextCrawl]_vars

\* SpecStore: two callers use the repository at once, their calls
\* interleaving at the awaits, all articles with the same title and content.
\* SpecStoreSeq: one caller, call after call, articles of either content.
InitStore == StoreInit /\ EngineParked /\ SchedParked /\ AiParked /\ UnitParked
NextStore == StoreNext(Callers, {a \in ArticleInputs : a.title = "D"})
SpecStore == InitStore /\ [][NextStore]_vars
NextStoreSeq == StoreNext({1}, ArticleInputs)
SpecStoreSeq == InitStore /\ [][NextStoreSeq]_vars

-----------------------------------------------------------------------------
(* Scheduler.crawlAll and Scheduler.crawlWebsite                           *)

\* configLoader.getWebsiteConfigs(): the configs with enabled !== false
EnabledConfigs == SelectSeq(sites, LAMBDA w : w.enabled)

\* raised is the message of the exception that escaped the try block of the
\* run, NoError while none has; the throwing steps set it.

\* (mutant) a catch block that returns from crawlWebsite without logging
CatchAndReturn(msg) ==
    /\ status' = "failed"
    /\ errorMessage' = msg
    /\ spc' = "siteLoop"
    /\ siteIdx' = siteIdx + 1

\* (mutant) a catch block that keeps the message and forgets the status
CatchKeepsStatus(msg) ==
    /\ UNCHANGED status
    /\ errorMessage' = msg
    /\ spc' = "log"
    /\ UNCHANGED siteIdx

\* catch (error) { status = "failed"; errorMessage = error.message }
Catch(msg) ==
    /\ status' = "failed"
    /\ errorMessage' = msg
    /\ spc' = "log"
    /\ UNCHANGED siteIdx

\* crawlAll: const configs = configLoader.getWebsiteConfigs()
CrawlAllStart ==
    /\ spc = "idle"
    /\ spc' = "siteLoop"
    /\ siteIdx' = 1
    /\ UNCHANGED <<cronVars, sites, apiKey, articles, articlesFound, articlesSaved, status,
                   errorMessage, idx, summaryMap, summarized, inserted, raised,
                   logs>>
    /\ UNCHANGED <<engineVars, storeVars>>
    /\ UNCHANGED <<aiVars, unitVars>>

\* crawlAll: the for-of over configs is exhausted
CrawlAllDone ==
    /\ spc = "siteLoop"
    /\ siteIdx > Len(EnabledConfigs)
    /\ spc' = "passDone"
    /\ UNCHANGED <<cronVars, sites, apiKey, siteIdx, articles, articlesFound,
                   articlesSaved, status, errorMessage, idx, summaryMap,
                   summarized, inserted, raised, logs>>
    /\ UNCHANGED <<engineVars, storeVars>>
    /\ UNCHANGED <<aiVars, unitVars>>

\* crawlWebsite(config.name) up to new CrawlerEngine(config); the name comes
\* from the configs, so getWebsiteConfig finds it
CrawlWebsiteStart ==
    /\ spc = "siteLoop"
    /\ siteIdx <= Len(EnabledConfigs)
    /\ articlesFound' = 0
    /\ articlesSaved' = 0
    /\ status' = "success"
    /\ errorMessage' = NoError
    /\ raised' = NoError
    /\ articles' = <<>>
    /\ idx' = 1
    /\ summaryMap' = <<>>
    /\ summarized' = <<>>
    /\ inserted' = {}
    /\ spc' = "crawl"
    /\ config' = EnabledConfigs[siteIdx].cfg
    /\ browser' = FALSE
    /\ context' = FALSE
    /\ epc' = "new"
    /\ error' = NoError
    /\ pageUrls' = <<>>
    /\ pageIdx' = 1
    /\ listArticles' = <<>>
    /\ elsLeft' = 0
    /\ candIdx' = 1
    /\ allArticles' = <<>>
    /\ lastDetail' = NoArticle
    /\ listVisits' = 0
    /\ detailFetches' = 0
    /\ pageBase' = 0
    /\ openPages' = 0
    /\ maxOpen' = 0
    /\ sessions' = 0
    /\ sinceFetch' = 0
    /\ lastFetched' = ""
    /\ runs' = 1
    /\ navFailed' = FALSE
    /\ UNCHANGED <<cronVars, sites, apiKey, siteIdx, logs>>
    /\ UNCHANGED storeVars
    /\ UNCHANGED <<aiVars, unitVars>>

\* const articles = await engine.crawl() returns
CrawlReturns ==
    /\ spc = "crawl"
    /\ epc = "done"
    /\ articles' = allArticles
    /\ spc' = "close"
    /\ UNCHANGED <<cronVars, sites, apiKey, siteIdx, articlesFound, articlesSaved, status,
                   errorMessage, idx, summaryMap, summarized, inserted, raised,
                   logs>>
    /\ UNCHANGED <<engineVars, storeVars>>
    /\ UNCHANGED <<aiVars, unitVars>>

\* await engine.crawl() rejects
CrawlThrows ==
    /\ spc = "crawl"
    /\ epc = "threw"
    /\ raised' = error
    /\ Catch(error)
    /\ UNCHANGED <<cronVars, sites, apiKey, articles, articlesFound, articlesSaved, idx,
                   summaryMap, summarized, inserted, logs>>
    /\ UNCHANGED <<engineVars, storeVars>>
    /\ UNCHANGED <<aiVars, unitVars>>

\* await engine.close(); articlesFound = articles.length;
\* if (articles.length > 0) ... else fall out of the try
EngineClose ==
    /\ spc = "close"
    /\ \E ctxOk \in BOOLEAN, brOk \in BOOLEAN :
         LET r == CloseOutcome(browser, context, sessions, ctxOk, brOk)
         IN /\ browser' = r[1]
            /\ context' = r[2]
            /\ sessions' = r[4]
            /\ IF r[3] = NoError
               THEN /\ articlesFound' = Len(articles)
                    /\ spc' = IF Len(articles) > 0 THEN "persist" ELSE "log"
                    /\ idx' = 1
                    /\ UNCHANGED <<siteIdx, status, errorMessage, raised>>
               ELSE \* context.close() or browser.close() threw
                    /\ raised' = r[3]
                    /\ Catch(r[3])
                    /\ UNCHANGED <<articlesFound, idx>>
    /\ UNCHANGED <<cronVars, sites, apiKey, articles, articlesSaved, summaryMap,
                   summarized, inserted, logs>>
    /\ UNCHANGED <<config, epc, error, pageUrls, pageIdx, listArticles, elsLeft,
                   candIdx, allArticles, lastDetail, listVisits, detailFetches,
                   pageBase, openPages, maxOpen, sinceFetch, lastFetched, runs,
                   navFailed>>
    /\ UNCHANGED storeVars
    /\ UNCHANGED <<aiVars, unitVars>>

\* (mutant) a save loop that counts every article it hands to the repository
PersistArticleCountsEveryCall ==
    /\ spc = "persist"
    /\ idx <= Len(articles)
    /\ \E ok \in BOOLEAN :
         IF ok
         THEN LET art == articles[idx]
                  known == ExistsByUrl(store, art.url)
              IN /\ store' = IF known THEN store
                             ELSE SaveRec(storageType, store, art)
                 /\ articlesSaved' = articlesSaved + 1
                 /\ inserted' = IF known THEN inserted
                                ELSE inserted \cup {art.url}
                 /\ idx' = idx + 1
                 /\ UNCHANGED <<spc, siteIdx, status, errorMessage, raised>>
         ELSE /\ raised' = "storage failed"
              /\ Catch("storage failed")
              /\ UNCHANGED <<store, articlesSaved, inserted, idx>>
    /\ UNCHANGED <<cronVars, sites, apiKey, articles, articlesFound, summaryMap,
                   summarized, logs>>
    /\ UNCHANGED <<storageType, call, hist, ncalls>>
    /\ UNCHANGED engineVars
    /\ UNCHANGED <<aiVars, unitVars>>

\* const saved = await this.articleRepo.saveIfNotExists(article);
\* if (saved) articlesSaved++
PersistArticle ==
    /\ spc = "persist"
    /\ idx <= Len(articles)
    /\ \E ok \in BOOLEAN :
         IF ok
         THEN LET art == articles[idx]
                  known == ExistsByUrl(store, art.url)
              IN /\ store' = IF known THEN store
                             ELSE SaveRec(storageType, store, art)
                 /\ articlesSaved' = IF known THEN articlesSaved
                                     ELSE articlesSaved + 1
                 /\ inserted' = IF known THEN inserted
                                ELSE inserted \cup {art.url}
                 /\ idx' = idx + 1
                 /\ UNCHANGED <<spc, siteIdx, status, errorMessage, raised>>
         ELSE \* the repository threw
              /\ raised' = "storage failed"
              /\ Catch("storage failed")
              /\ UNCHANGED <<store, articlesSaved, inserted, idx>>
    /\ UNCHANGED <<cronVars, sites, apiKey, articles, articlesFound, summaryMap,
                   summarized, logs>>
    /\ UNCHANGED <<storageType, call, hist, ncalls>>
    /\ UNCHANGED engineVars
    /\ UNCHANGED <<aiVars, unitVars>>

\* the save loop is over: if (articlesSaved > 0)
\*   summaryMap = await this.aiService.generateSummaryBatch(articles)
PersistDone ==
    /\ spc = "persist"
    /\ idx > Len(articles)
    /\ IF articlesSaved > 0
       THEN /\ summarized' = articles
            /\ summaryMap' = <<>>
            /\ idx' = 1
            /\ spc' = "summarize"
       ELSE /\ spc' = "log"
            /\ UNCHANGED <<summarized, summaryMap, idx>>
    /\ UNCHANGED <<cronVars, sites, apiKey, siteIdx, articles, articlesFound,
                   articlesSaved, status, errorMessage, inserted, raised, logs>>
    /\ UNCHANGED <<engineVars, storeVars>>
    /\ UNCHANGED <<aiVars, unitVars>>

\* most rate-limit answers counted for one article (the count stops there,
\* the answers do not)
MaxRetries == 2

\* what the backend can answer a request with: a summary, a blank text, a
\* rate-limit signal (HTTP 429), any other failure
BackendAnswers == {"ok", "empty", "rate", "fail"}

\* (mutant) a client that sends its request whatever the content
CallsBackendIgnoringContent(key, art) == key

\* (mutant) a client that sends its request without a credential
CallsBackendIgnoringKey(key, art) == Truthy(art.content)

\* AIService.generateSummary reaches this.client.post: neither of
\* if (!this.apiKey) return null; if (!article.content) return null
CallsBackend(key, art) == key /\ Truthy(art.content)

\* (mutant) a client that gives an article up at its second rate-limit answer
GenerateSummaryResultOneRetry(key, art, out) ==
    IF ~CallsBackend(key, art) THEN "null"
    ELSE CASE out = "ok" -> "s1"
           [] out = "empty" -> NoSummary
           [] out = "rate" -> IF retries >= 1 THEN "null" ELSE "retry"
           [] OTHER -> "null"

\* (mutant) a client that retries after every failure
GenerateSummaryResultRetryAll(key, art, out) ==
    IF ~CallsBackend(key, art) THEN "null"
    ELSE CASE out = "ok" -> "s1"
           [] out = "empty" -> NoSummary
           [] OTHER -> "retry"

\* AIService.generateSummary(article): "null", "retry" (a 429: sleep, call
\* again) or the summary, which is blank when the answer's text is.  out is
\* the backend's answer if it is called.
GenerateSummaryResult(key, art, out) ==
    IF ~CallsBackend(key, art) THEN "null"
    ELSE CASE out = "ok" -> "s1"
           [] out = "empty" -> NoSummary
           [] out = "rate" -> "retry"
           [] OTHER -> "null"

\* (mutant) a retry that is sent at once
AfterAnswerNoBackoff(res) == IF res = "retry" THEN "summarize" ELSE "sumDelay"

\* where generateSummary's result leads: the catch's sleep(10000) before the
\* recursive call, or back in generateSummaryBatch to its sleep(1000)
AfterAnswer(res) == IF res = "retry" THEN "backoff" ELSE "sumDelay"

\* summaryMap.set(url, summary), the Map keeping first-insertion order
MapSet(m, url) ==
    IF \E i \in 1..Len(m) : m[i] = url THEN m ELSE Append(m, url)

\* (mutant) a batch loop that sleeps only after an article it sent a request for
GenerateSummaryDelayAfterCallsOnly ==
    /\ spc = "summarize"
    /\ idx <= Len(summarized)
    /\ LET art == summarized[idx]
       IN IF ~Truthy(art.url) \/ ~CallsBackend(apiKey, art)
          THEN /\ idx' = idx + 1
               /\ aiEvent' = IF Truthy(art.url) THEN "skip" ELSE "nourl"
               /\ UNCHANGED <<spc, summaryMap, retries, lastCalled>>
          ELSE \E out \in BackendAnswers :
                 LET res == GenerateSummaryResult(apiKey, art, out)
                 IN /\ spc' = AfterAnswer(res)
                    /\ summaryMap' =
                          IF res \notin {"retry", "null"} /\ Truthy(res)
                          THEN MapSet(summaryMap, art.url) ELSE summaryMap
                    /\ aiEvent' = out
                    /\ lastCalled' = idx
                    /\ retries' = IF out = "rate" /\ retries < MaxRetries
                                  THEN retries + 1 ELSE retries
                    /\ UNCHANGED idx
    /\ UNCHANGED <<cronVars, sites, apiKey, siteIdx, articles, articlesFound,
                   articlesSaved, status, errorMessage, summarized, inserted,
                   raised, logs>>
    /\ UNCHANGED <<engineVars, storeVars, unitVars>>

\* generateSummaryBatch: one turn of its loop up to the trailing sleep(1000),
\* or one recursive generateSummary call after a backoff
GenerateSummary ==
    /\ spc = "summarize"
    /\ idx <= Len(summarized)
    /\ LET art == summarized[idx]
       IN IF ~Truthy(art.url)
          THEN \* if (!article.url) continue
               /\ idx' = idx + 1
               /\ aiEvent' = "nourl"
               /\ UNCHANGED <<spc, summaryMap, retries, lastCalled>>
          ELSE \E out \in BackendAnswers :
                 LET called == CallsBackend(apiKey, art)
                     res == GenerateSummaryResult(apiKey, art, out)
                 IN /\ spc' = AfterAnswer(res)
                    /\ summaryMap' =
                          IF res \notin {"retry", "null"} /\ Truthy(res)
                          THEN MapSet(summaryMap, art.url) ELSE summaryMap
                    /\ aiEvent' = IF called THEN out ELSE "skip"
                    /\ lastCalled' = IF called THEN idx ELSE lastCalled
                    /\ retries' = IF called /\ out = "rate"
                                     /\ retries < MaxRetries
                                  THEN retries + 1 ELSE retries
                    /\ UNCHANGED idx
    /\ UNCHANGED <<cronVars, sites, apiKey, siteIdx, articles, articlesFound,
                   articlesSaved, status, errorMessage, summarized, inserted,
                   raised, logs>>
    /\ UNCHANGED <<engineVars, storeVars, unitVars>>

\* generateSummary: await this.sleep(10000); return this.generateSummary(article)
Backoff ==
    /\ spc = "backoff"
    /\ spc' = "summarize"
    /\ aiEvent' = "backoff"
    /\ UNCHANGED <<retries, lastCalled>>
    /\ UNCHANGED <<cronVars, sites, apiKey, siteIdx, articles, articlesFound,
                   articlesSaved, status, errorMessage, idx, summaryMap,
                   summarized, inserted, raised, logs>>
    /\ UNCHANGED <<engineVars, storeVars, unitVars>>

\* generateSummaryBatch: await this.sleep(1000)
InterCallDelay ==
    /\ spc = "sumDelay"
    /\ idx' = idx + 1
    /\ spc' = "summarize"
    /\ aiEvent' = "delay"
    /\ retries' = 0
    /\ lastCalled' = 0
    /\ UNCHANGED <<cronVars, sites, apiKey, siteIdx, articles, articlesFound,
                   articlesSaved, status, errorMessage, summaryMap, summarized,
                   inserted, raised, logs>>
    /\ UNCHANGED <<engineVars, storeVars, unitVars>>

\* generateSummaryBatch returns summaryMap
GenerateSummaryBatchReturns ==
    /\ spc = "summarize"
    /\ idx > Len(summarized)
    /\ idx' = 1
    /\ spc' = "update"
    /\ aiEvent' = "none"
    /\ retries' = 0
    /\ lastCalled' = 0
    /\ UNCHANGED <<cronVars, sites, apiKey, siteIdx, articles, articlesFound,
                   articlesSaved, status, errorMessage, summaryMap, summarized,
                   inserted, raised, logs>>
    /\ UNCHANGED <<engineVars, storeVars, unitVars>>

\* for (const [url, summary] of summaryMap.entries())
\*   await this.articleRepo.updateSummary(url, summary)
UpdateSummaries ==
    /\ spc = "update"
    /\ IF idx > Len(summaryMap)
       THEN /\ spc' = "log"
            /\ UNCHANGED <<store, idx, siteIdx, status, errorMessage, raised>>
       ELSE \E ok \in BOOLEAN :
              IF ok
              THEN /\ store' = UpdateSummaryRec(store, summaryMap[idx], "s1")
                   /\ idx' = idx + 1
                   /\ UNCHANGED <<spc, siteIdx, status, errorMessage, raised>>
              ELSE \* the repository threw
                   /\ raised' = "storage failed"
                   /\ Catch("storage failed")
                   /\ UNCHANGED <<store, idx>>
    /\ UNCHANGED <<cronVars, sites, apiKey, articles, articlesFound, articlesSaved,
                   summaryMap, summarized, inserted, logs>>
    /\ UNCHANGED <<storageType, call, hist, ncalls>>
    /\ UNCHANGED engineVars
    /\ UNCHANGED <<aiVars, unitVars>>

\* the CrawlRunLog crawlWebsite builds after its try/catch
RunLog ==
    [source |-> EnabledConfigs[siteIdx].name, status |-> status,
     articles_found |-> articlesFound, articles_saved |-> articlesSaved,
     error_message |-> errorMessage]

\* await this.crawlLogRepo.save({...}); if it rejects, crawlWebsite and with
\* it crawlAll's loop reject
RecordLog ==
    /\ spc = "log"
    /\ logs' = Append(logs, RunLog)
    /\ \E ok \in BOOLEAN :
         IF ok
         THEN /\ spc' = "siteLoop"
              /\ siteIdx' = siteIdx + 1
         ELSE /\ spc' = "aborted"
              /\ UNCHANGED siteIdx
    \* crawlWebsite is left: its locals and its engine are gone
    /\ articles' = <<>>
    /\ articlesFound' = 0
    /\ articlesSaved' = 0
    /\ status' = "success"
    /\ errorMessage' = NoError
    /\ raised' = NoError
    /\ idx' = 1
    /\ summaryMap' = <<>>
    /\ summarized' = <<>>
    /\ inserted' = {}
    /\ config' = [maxArticles |-> Unset, pagination |-> NoPagination,
                  useReadability |-> FALSE, delay |-> Unset]
    /\ browser' = FALSE
    /\ context' = FALSE
    /\ epc' = "none"
    /\ error' = NoError
    /\ pageUrls' = <<>>
    /\ pageIdx' = 1
    /\ listArticles' = <<>>
    /\ elsLeft' = 0
    /\ candIdx' = 1
    /\ allArticles' = <<>>
    /\ lastDetail' = NoArticle
    /\ listVisits' = 0
    /\ detailFetches' = 0
    /\ pageBase' = 0
    /\ openPages' = 0
    /\ maxOpen' = 0
    /\ sessions' = 0
    /\ sinceFetch' = 0
    /\ lastFetched' = ""
    /\ runs' = 1
    /\ navFailed' = FALSE
    /\ UNCHANGED <<cronVars, sites, apiKey>>
    /\ UNCHANGED storeVars
    /\ UNCHANGED <<aiVars, unitVars>>

\* the sites of config/websites, each enabled or not
SiteNames == <<"s1", "s2">>
SchedConfigs ==
    {c \in SiteConfigs : /\ c.pagination = NoPagination
                         /\ ~c.useReadability
                         /\ c.maxArticles \in {Unset, 1}}
\* most elements a list page holds in a scheduler pass
SchedMaxCandidates == 2
\* the elements those pages hold: a titled absolute link to an article, an
\* untitled one, or an element without a link
SchedElements ==
    {el \in ElementsOver(ArticleIds) :
        /\ el.titleOut # "throws"
        /\ el.link # NoHref
        /\ el.link \in Hrefs => el.link.abs}

SchedInit ==
    /\ sites \in {w \in [1..Len(SiteNames) ->
                            [name : {SiteNames[i] : i \in 1..Len(SiteNames)},
                             cfg : SchedConfigs, enabled : BOOLEAN]] :
                     \A i \in 1..Len(SiteNames) : w[i].name = SiteNames[i]}
    /\ apiKey \in BOOLEAN
    /\ spc = "idle"
    /\ siteIdx = 1
    /\ articles = <<>>
    /\ articlesFound = 0
    /\ articlesSaved = 0
    /\ status = "success"
    /\ errorMessage = NoError
    /\ idx = 1
    /\ summaryMap = <<>>
    /\ summarized = <<>>
    /\ inserted = {}
    /\ raised = NoError
    /\ logs = <<>>
    /\ CronParked

\* SpecSched: one crawlAll pass over the enabled sites, each run creating its
\* engine, crawling, saving, summarizing and logging.
InitSched ==
    SchedInit /\ StoreInit /\ storageType = "json" /\ EngineParked /\ AiParked /\ UnitParked
NextSched ==
    \/ CrawlAllStart
    \/ CrawlAllDone
    \/ CrawlWebsiteStart
    \/ CrawlNext(SchedMaxCandidates, SchedElements)
    \/ CrawlReturns
    \/ CrawlThrows
    \/ EngineClose
    \/ PersistArticle
    \/ PersistDone
    \/ GenerateSummary
    \/ Backoff
    \/ InterCallDelay
    \/ GenerateSummaryBatchReturns
    \/ UpdateSummaries
    \/ RecordLog
SpecSched == InitSched /\ [][NextSched]_vars

\* await engine.close(), called by the owner of the instance between crawls
CloseEngine ==
    /\ epc \in {"done", "threw"}
    /\ \E ctxOk \in BOOLEAN, brOk \in BOOLEAN :
         LET r == CloseOutcome(browser, context, sessions, ctxOk, brOk)
         IN /\ browser' = r[1]
            /\ context' = r[2]
            /\ error' = r[3]
            /\ sessions' = r[4]
            /\ epc' = IF r[3] = NoError THEN "closed" ELSE "closeThrew"
    /\ UNCHANGED <<config, pageUrls, pageIdx, listArticles, elsLeft, candIdx,
                   allArticles, lastDetail, listVisits, detailFetches, pageBase,
                   openPages, maxOpen, sinceFetch, lastFetched, runs,
                   navFailed>>
    /\ UNCHANGED <<storeVars, schedVars, aiVars, unitVars>>

\* most crawl() calls made on one instance
MaxRuns == 2

\* engine.crawl() called again on the same instance, closed or not
Recrawl ==
    /\ epc \in {"done", "threw", "closed", "closeThrew"}
    /\ runs < MaxRuns
    /\ runs' = runs + 1
    /\ navFailed' = FALSE
    /\ epc' = "new"
    /\ error' = NoError
    /\ pageUrls' = <<>>
    /\ pageIdx' = 1
    /\ listArticles' = <<>>
    /\ elsLeft' = 0
    /\ candIdx' = 1
    /\ allArticles' = <<>>
    /\ lastDetail' = NoArticle
    /\ listVisits' = 0
    /\ detailFetches' = 0
    /\ pageBase' = 0
    /\ sinceFetch' = 0
    /\ lastFetched' = ""
    /\ UNCHANGED <<config, browser, context, openPages, maxOpen, sessions>>
    /\ UNCHANGED <<storeVars, schedVars, aiVars, unitVars>>

\* SpecEngine: one CrawlerEngine instance whose owner calls crawl(), may
\* close() it, and may call crawl() again; list pages link to one article.
EngineConfigs ==
    [maxArticles : {Unset, 1},
     pagination : {NoPagination,
                   Pagination(TRUE, "placeholder", MaxPages, Unset)},
     useReadability : {FALSE}, delay : {Unset, 1}]
InitEngine ==
    /\ \E cfg \in EngineConfigs : EngineInit(cfg)
    /\ StoreParked /\ SchedParked /\ AiParked /\ UnitParked
NextEngine ==
    \/ CrawlNext(SchedMaxCandidates,
                 {el \in SchedElements : el.link.id \in {"u1", "nolink"}})
    \/ CloseEngine
    \/ Recrawl
SpecEngine == InitEngine /\ [][NextEngine]_vars
\* SpecCrawlFair: one crawl() run on the same sites, capped or not,
\* paginated or not.  crawl() is one chain of awaits: as long as each
\* awaited navigation, extraction and delay returns or fails, its next step
\* is taken.
NextCrawlFair ==
    CrawlNext(SchedMaxCandidates,
              {el \in SchedElements : el.link.id \in {"u1", "nolink"}})
SpecCrawlFair == InitEngine /\ [][NextCrawlFair]_vars /\ WF_vars(NextCrawlFair)

\* SpecOrder: one crawl() run over paginated list pages that link to two
\* articles, in any arrangement.
InitOrder ==
    /\ EngineInit([maxArticles |-> MaxCap,
                   pagination |-> Pagination(TRUE, "placeholder", MaxPages, Unset),
                   useReadability |-> FALSE, delay |-> Unset])
    /\ StoreParked /\ SchedParked /\ AiParked /\ UnitParked
NextOrder == CrawlNext(SchedMaxCandidates, SchedElements)
SpecOrder == InitOrder /\ [][NextOrder]_vars

\* SpecSummary: one AIService.generateSummaryBatch call on an arbitrary batch,
\* with or without a credential.  SpecSummaryFair adds that the client, which
\* is a single chain of awaits, keeps taking its next step.
MaxSummaryBatch == 3
SummaryArticles ==
    {MkArticle(u, "T", c) : u \in ArticleIds \cup {""}, c \in {"", "C"}}
SummaryBatches ==
    UNION {[1..n -> SummaryArticles] : n \in 0..MaxSummaryBatch}

InitSummary ==
    /\ apiKey \in BOOLEAN
    /\ summarized \in SummaryBatches
    /\ spc = "summarize"
    /\ idx = 1
    /\ summaryMap = <<>>
    /\ sites = <<>>
    /\ siteIdx = 1
    /\ articles = <<>>
    /\ articlesFound = 0
    /\ articlesSaved = 0
    /\ status = "success"
    /\ errorMessage = NoError
    /\ inserted = {}
    /\ raised = NoError
    /\ logs = <<>>
    /\ CronParked
    /\ AiParked /\ UnitParked
    /\ EngineParked
    /\ StoreParked
NextSummary ==
    \/ GenerateSummary
    \/ Backoff
    \/ InterCallDelay
    \/ GenerateSummaryBatchReturns
SpecSummary == InitSummary /\ [][NextSummary]_vars
SpecSummaryFair == SpecSummary /\ WF_vars(NextSummary)

-----------------------------------------------------------------------------
(* Properties of crawl()  (SpecCrawl)                                      *)

CapSet == config.maxArticles # Unset
\* a detail extraction that returned an article with a title and a content
HasTitleAndContent(a) == a.ok /\ a.title # "" /\ a.content # ""
\* the step in which crawlDetailPage returns to crawl()
DetailReturns == epc = "detail" /\ epc' = "delay"

\* C1: the batch holds an article if and only if its detail extraction
\* returned an article with a non-empty title and a non-empty content: every
\* such article is appended when its extraction returns, nothing else ever
\* enters or leaves the batch, and no entry of the batch has an empty title
\* or an empty content.
C1_BatchHoldsExactlyTheCompleteArticles ==
    /\ [](\A i \in 1..Len(allArticles) :
             allArticles[i].title # "" /\ allArticles[i].content # "")
    /\ [][/\ DetailReturns =>
               allArticles' = IF HasTitleAndContent(lastDetail')
                              THEN Append(allArticles, lastDetail')
                              ELSE allArticles
          /\ (epc \notin {"detail", "new"}) => allArticles' = allArticles]_vars

\* C1 witness: a returned batch with an article in it, the last extraction
\* having been dropped for its empty content
C1_Witness ==
    /\ epc = "done"
    /\ Len(allArticles) >= 1
    /\ lastDetail.ok /\ lastDetail.title # "" /\ lastDetail.content = ""

\* C2: with maxArticles set to a positive N the batch never holds more than
\* N articles, at any point of crawl().
C2_BatchNeverExceedsCap ==
    CapSet => Len(allArticles) <= config.maxArticles

\* C2 witness: the crawl ended with the batch at the cap of 2 while a
\* candidate of the page and a further list page were still to come
C2_Witness ==
    /\ epc = "done"
    /\ config.maxArticles = 2
    /\ Len(allArticles) = 2
    /\ candIdx <= Len(listArticles)
    /\ pageIdx <= Len(pageUrls)

\* C3 as stated: with maxArticles = N and a page of more than N candidates no
\* candidate after the N-th is ever fetched, whatever the first N
\* extractions returned.
C3_Original_NoFetchPastNthCandidate ==
    (CapSet /\ Len(listArticles) > config.maxArticles /\ epc = "delay")
        => candIdx <= config.maxArticles

\* the candidates of the current page fetched so far that were not
\* accumulated (at epc = "detail": among the candIdx - 1 before this one)
DiscardedOnPage == (candIdx - 1) - (Len(allArticles) - pageBase)

\* C3 amended: a candidate is fetched only while fewer than N articles are
\* accumulated, so the k-th candidate of a page, k > N, is fetched only if at
\* least k - N of the candidates before it yielded no accumulated article;
\* when the first N extractions each yield a complete article, no candidate
\* after the N-th is fetched.
C3_FetchPastNthOnlyAfterDiscards ==
    (CapSet /\ epc = "detail") =>
        /\ Len(allArticles) < config.maxArticles
        /\ candIdx > config.maxArticles
              => DiscardedOnPage >= candIdx - config.maxArticles

\* C3 witness: N = 2, a page of 3 candidates, the first two complete: the
\* page is left with the 3rd candidate never fetched
C3_Witness ==
    /\ config.maxArticles = 2
    /\ Len(listArticles) = 3
    /\ epc = "pageLoop"
    /\ candIdx = 3
    /\ detailFetches = 2
    /\ Len(allArticles) = 2

\* C4: once the running total has reached maxArticles no list page is
\* visited and no detail page is fetched any more, and crawl() does not
\* throw: it only goes on to return the batch.
C4_NoFetchOnceCapReached ==
    /\ []((CapSet /\ Len(allArticles) >= config.maxArticles /\ epc # "new")
            => epc \in {"delay", "itemLoop", "pageLoop", "done"})
    /\ [][(CapSet /\ Len(allArticles) >= config.maxArticles /\ epc # "new")
            => /\ listVisits' = listVisits
               /\ detailFetches' = detailFetches
               /\ allArticles' = allArticles
               /\ epc' # "threw"]_vars

\* C4 witness: the crawl returned at the cap with a list page never visited
C4_Witness ==
    /\ epc = "done"
    /\ CapSet
    /\ Len(allArticles) = config.maxArticles
    /\ listVisits < Len(pageUrls)

-----------------------------------------------------------------------------
(* Properties of the article repository  (SpecStoreSeq, SpecStore)         *)

RecordsOf(url) == {k \in 1..Len(store) : store[k].url = url}

\* C5: of two saveIfNotExists calls made one after the other with the same
\* URL, the first returns true (the URL not being stored before it), the
\* second returns false and leaves the store as it found it, and the store
\* holds exactly one record of that URL after each of them and from then on.
C5_SaveIfNotExistsTwice ==
    \A i, j \in 1..Len(hist) :
        (i < j /\ hist[i].url = hist[j].url) =>
            /\ ~hist[i].known => hist[i].result = TRUE
            /\ hist[j].result = FALSE
            /\ ~hist[j].modified
            /\ hist[i].stored = 1
            /\ hist[j].stored = 1
            /\ Cardinality(RecordsOf(hist[j].url)) = 1

\* C5 witness: two calls with the same new URL have returned, true then false
C5_Witness ==
    /\ Len(hist) = 2
    /\ hist[1].url = hist[2].url
    /\ ~hist[1].known
    /\ hist[1].result = TRUE
    /\ hist[2].result = FALSE

\* C6: whatever calls of saveIfNotExists, save, saveBatch and updateSummary
\* have run or are under way, no two records of the store have the same URL.
C6_AtMostOneRecordPerUrl ==
    \A i, j \in 1..Len(store) : i # j => store[i].url # store[j].url

\* C6 witness: two overlapping saveIfNotExists calls both found the URL
\* missing and both saved it, and the store holds one record of it
C6_Witness ==
    /\ Len(hist) = 2
    /\ hist[1].url = hist[2].url
    /\ hist[1].result = TRUE
    /\ hist[2].result = TRUE
    /\ Cardinality(RecordsOf(hist[1].url)) = 1

-----------------------------------------------------------------------------
(* Properties of the scheduler  (SpecSched)                                *)

\* a crawlWebsite run is between its first statement and its log call
InRun == spc \in {"crawl", "close", "persist", "summarize", "backoff",
                  "sumDelay", "update", "log"}
\* the try block of the run has ended, normally or by its catch
SequenceEnded == spc = "log"
Last(q) == q[Len(q)]

\* C7: every run of crawlWebsite, whether its crawl/persist/summarize
\* sequence succeeds or throws, hands exactly one CrawlRunLog to the log
\* gateway, and only once that sequence has ended: while the i-th run is under
\* way i-1 logs have been handed over, once it is left i have, and the log
\* handed over is the run's own (its site, status and counts).
C7_OneLogPerRunAfterTheSequence ==
    /\ [](InRun => Len(logs) = siteIdx - 1)
    /\ [](spc \in {"siteLoop", "passDone"} => Len(logs) = siteIdx - 1)
    /\ [](spc = "aborted" => Len(logs) = siteIdx)
    /\ [][logs' # logs =>
            /\ SequenceEnded
            /\ ~InRun'
            /\ Len(logs') = Len(logs) + 1
            /\ SubSeq(logs', 1, Len(logs)) = logs
            /\ Last(logs').source = EnabledConfigs[siteIdx].name
            /\ Last(logs').articles_found = articlesFound
            /\ Last(logs').articles_saved = articlesSaved]_vars
C7_Witness ==
    /\ spc = "passDone"
    /\ Len(logs) = 2
    /\ logs[1].source = "s1" /\ logs[1].status = "failed"
    /\ logs[2].source = "s2" /\ logs[2].status = "success"
    /\ logs[2].articles_saved = 2

\* C8 (as stated): a failed run never aborts the other sites of the pass:
\* when crawlAll is over and a run of the pass was logged as failed, every
\* enabled site has had its run.
C8_FailedRunNeverAbortsThePass ==
    (/\ spc \in {"passDone", "aborted"}
     /\ \E i \in 1..Len(logs) : logs[i].status = "failed")
        => Len(logs) = Len(EnabledConfigs)

\* C9: the log's status is "failed" exactly when an exception escaped the
\* run's sequence, and then error_message is that exception's message; a run
\* without exception is logged "success" whatever its counts.
C9_FailedIffAnExceptionEscaped ==
    /\ [](InRun => /\ (status = "failed") <=> (raised # NoError)
                   /\ status \in {"failed", "success"}
                   /\ errorMessage = raised)
    /\ [][logs' # logs =>
            /\ Last(logs').status = status
            /\ Last(logs').error_message = errorMessage]_vars
C9_Witness ==
    /\ spc = "log"
    /\ Len(logs) = 1
    /\ logs[1].status = "failed" /\ logs[1].error_message = "storage failed"
    /\ status = "success" /\ raised = NoError
    /\ detailFetches = 2
    /\ articlesFound = 1 /\ articlesSaved = 0

\* C10 (as stated): every article handed to generateSummaryBatch is one that
\* saveIfNotExists reported as newly inserted in this run.
C10_OnlyNewArticlesAreSummarized ==
    \A i \in 1..Len(summarized) : summarized[i].url \in inserted

-----------------------------------------------------------------------------
(* Properties of generateSummaryBatch  (SpecSummary, SpecSummaryFair)      *)

\* the client is about to handle the article at idx
AtArticle == spc = "summarize" /\ idx <= Len(summarized)
\* a step in which the client sends a request for the article at idx and gets
\* its answer
RequestStep == AtArticle /\ aiEvent' \in BackendAnswers
\* the batch call has returned its mapping
BatchReturned == spc = "update"

\* C11: an article with empty content is never sent to the backend and adds
\* no key to the mapping, wherever it stands in the batch: the step handling
\* it sends no request and leaves the mapping alone, and every key of the
\* mapping is the URL of an article of the batch that has content.
C11_EmptyContentNeitherRequestedNorKeyed ==
    /\ [][(AtArticle /\ ~Truthy(summarized[idx].content))
            => (summaryMap' = summaryMap /\ aiEvent' \notin BackendAnswers)]_vars
    /\ [](\A k \in 1..Len(summaryMap) :
            \E i \in 1..Len(summarized) :
               /\ summarized[i].url = summaryMap[k]
               /\ Truthy(summarized[i].content))
C11_Witness ==
    /\ BatchReturned
    /\ apiKey
    /\ Len(summarized) = 3
    /\ summarized[1] = MkArticle("u1", "T", "C")
    /\ summarized[2] = MkArticle("u2", "T", "")
    /\ summarized[3] = MkArticle("u1", "T", "C")
    /\ summaryMap = <<"u1">>

\* C12: a rate-limit answer makes the client wait the backoff interval and
\* then send the request for the same article again, before any later
\* article; a request that follows another one without the inter-call delay
\* in between (a retry) comes straight after a backoff wait.
C12_RetryAfterBackoffSameArticle ==
    /\ [][(RequestStep /\ aiEvent' = "rate")
            => (spc' = "backoff" /\ idx' = idx)]_vars
    /\ [][spc = "backoff"
            => (aiEvent' = "backoff" /\ spc' = "summarize" /\ idx' = idx)]_vars
    /\ [][aiEvent = "backoff"
            => (aiEvent' \in BackendAnswers /\ idx' = idx /\ lastCalled' = idx)]_vars
    /\ [][(RequestStep /\ lastCalled # 0)
            => (aiEvent = "backoff" /\ lastCalled = idx)]_vars
C12_Witness ==
    /\ aiEvent = "ok"
    /\ retries = 2
    /\ idx = 2
    /\ Len(summarized) = 3
    /\ summaryMap = <<summarized[2].url>>

\* C13: the retries of one article are not bounded: in every state in which
\* the latest answer is the rate-limit signal, however many came before, the
\* client is in its backoff and the batch call does not return from there;
\* any other answer ends the requests for the article; and the batch call
\* returns unless the backend answers with the rate-limit signal for ever.
C13_RetriesUnboundedElseTerminates ==
    /\ [](aiEvent = "rate" => spc = "backoff")
    /\ [][spc = "backoff" => ~BatchReturned']_vars
    /\ [][(RequestStep /\ aiEvent' # "rate") => spc' = "sumDelay"]_vars
    /\ (<>BatchReturned \/ []<>(aiEvent = "rate"))
C13_Witness ==
    /\ aiEvent = "rate"
    /\ retries = MaxRetries
    /\ spc = "backoff"
    /\ idx = 2

\* C14: a failure other than the rate-limit signal is not retried and adds
\* no entry: the client goes on to the inter-call delay and the next
\* article, and the batch call goes past the article (or returns).
C14_OtherFailureSkipsTheArticle ==
    /\ [][(RequestStep /\ aiEvent' = "fail")
            => (summaryMap' = summaryMap /\ spc' = "sumDelay" /\ idx' = idx)]_vars
    /\ [][aiEvent = "fail"
            => (aiEvent' = "delay" /\ idx' = idx + 1
                /\ summaryMap' = summaryMap)]_vars
    /\ \A i \in 1..MaxSummaryBatch :
          (aiEvent = "fail" /\ idx = i) ~> (BatchReturned \/ idx > i)
C14_Witness ==
    /\ aiEvent = "fail"
    /\ idx = 2
    /\ Len(summarized) = 3
    /\ summaryMap = <<"u1">>
    /\ summarized[2].url = "u2"

\* C15: without a credential the mapping stays empty and no request is sent,
\* whatever the batch.
C15_NoCredentialNoRequestEmptyMapping ==
    ~apiKey => /\ summaryMap = <<>>
               /\ aiEvent \notin BackendAnswers
               /\ lastCalled = 0
C15_Witness ==
    /\ ~apiKey
    /\ BatchReturned
    /\ Len(summarized) = 3
    /\ \A i \in 1..3 : Truthy(summarized[i].url) /\ Truthy(summarized[i].content)

\* C16 (as stated): the inter-call delay is waited after every article of
\* the batch: the loop never moves to the next article but by its sleep.
C16_Original_DelayAfterEveryArticle ==
    [][(spc \in {"summarize", "sumDelay"} /\ idx' = idx + 1)
        => aiEvent' = "delay"]_vars

\* C16 (amended): the loop moves to the next article by its sleep, except
\* past an article without URL, for which nothing is requested; a request for
\* an article other than the one requested last comes after a sleep.
C16_DelayAfterEveryArticleWithUrl ==
    /\ [][(spc \in {"summarize", "sumDelay"} /\ idx' = idx + 1)
            => \/ aiEvent' = "delay"
               \/ aiEvent' = "nourl" /\ ~Truthy(summarized[idx].url)]_vars
    /\ [][(RequestStep /\ lastCalled # idx) => lastCalled = 0]_vars
C16_Witness ==
    /\ aiEvent \in BackendAnswers
    /\ idx = 3
    /\ lastCalled = 3
    /\ ~Truthy(summarized[2].url)
    /\ summaryMap = <<summarized[1].url>>

-----------------------------------------------------------------------------
(* Properties of the engine's fetches  (SpecOrder, SpecEngine)             *)

\* a step in which crawl() calls crawlListPage / crawlDetailPage
ListFetch == listVisits' = listVisits + 1
DetailFetch == detailFetches' = detailFetches + 1
UrlsOf(q) == [i \in 1..Len(q) |-> q[i].url]
\* a can be got from b by leaving elements out
RECURSIVE IsSubseq(_, _)
IsSubseq(a, b) ==
    IF a = <<>> THEN TRUE
    ELSE IF b = <<>> THEN FALSE
    ELSE IF Head(a) = Head(b) THEN IsSubseq(Tail(a), Tail(b))
    ELSE IsSubseq(a, Tail(b))

\* C17: the k-th list page fetched is the k-th URL of getPageUrls; on a page
\* the candidates are fetched one position after the other from the first;
\* the batch grows only at its end, by the article just fetched, so that the
\* part of the batch got from a page lists that page's candidates in order.
C17_PageThenCandidateOrder ==
    /\ [][(ListFetch /\ epc' = "extract")
            => lastFetched' = pageUrls[listVisits + 1]]_vars
    /\ [][(DetailFetch /\ epc' = "delay")
            => lastFetched' = listArticles[candIdx].url]_vars
    /\ [][candIdx' # candIdx
            => \/ candIdx' = candIdx + 1 /\ epc = "delay"
               \/ candIdx' = 1 /\ epc = "list"]_vars
    /\ [][allArticles' # allArticles
            => /\ DetailFetch
               /\ Len(allArticles') = Len(allArticles) + 1
               /\ SubSeq(allArticles', 1, Len(allArticles)) = allArticles
               /\ allArticles'[Len(allArticles')].url = lastFetched']_vars
    /\ [](IsSubseq(UrlsOf(SubSeq(allArticles, pageBase + 1, Len(allArticles))),
                   UrlsOf(listArticles)))
C17_Witness ==
    /\ epc = "done"
    /\ listVisits = 2
    /\ pageBase = 1
    /\ UrlsOf(allArticles) = <<"u2", "u1">>
    /\ UrlsOf(listArticles) = <<"u2", "u1">>
    /\ detailFetches = 3

\* C18: within crawl() at most one page is open at any moment, it is the
\* list page being extracted, and none is left open when crawl() returns or
\* throws.
C18_AtMostOnePageOpen ==
    /\ maxOpen <= 1
    /\ openPages <= 1
    /\ openPages = 1 => epc = "extract"
    /\ epc \in {"done", "threw", "closed", "closeThrew"} => openPages = 0
C18_Witness ==
    /\ epc = "threw"
    /\ error = "newPage failed"
    /\ maxOpen = 1
    /\ detailFetches = 2
    /\ listVisits = 2

\* C19: the instance launches its browser at a fetch and only when it holds
\* none, so it holds at most one; the one it holds is kept from page to page
\* and from crawl() to crawl() until close() returns, after which it holds
\* none.
C19_OneLazySessionUntilClose ==
    /\ [](sessions <= 1 /\ (sessions = 1 <=> browser))
    /\ []((runs = 1 /\ listVisits = 0 /\ detailFetches = 0) => sessions = 0)
    /\ [](epc = "closed" => (sessions = 0 /\ ~browser /\ ~context))
    /\ [][sessions' # sessions
            => \/ sessions = 0 /\ sessions' = 1 /\ (ListFetch \/ DetailFetch)
               \/ sessions = 1 /\ sessions' = 0 /\ epc' = "closed"]_vars
C19_Witness ==
    /\ runs = 2
    /\ epc = "delay"
    /\ sessions = 1
    /\ listVisits = 2
    /\ detailFetches = 2

\* C20: whenever crawl() starts a fetch after a detail fetch of the run, it
\* has waited the site's delay since that detail fetch, 2000 ms when the
\* configuration sets none, whatever the detail fetch returned.
C20_DelayAfterEveryDetailFetch ==
    [][((ListFetch \/ DetailFetch) /\ detailFetches > 0)
        => /\ sinceFetch > 0
           /\ sinceFetch = IF config.delay = Unset THEN 2000
                           ELSE config.delay]_vars
C20_Witness ==
    /\ epc = "delay"
    /\ detailFetches = 2
    /\ lastDetail = NoArticle
    /\ allArticles = <<>>
    /\ config.delay = Unset

-----------------------------------------------------------------------------
(* One method applied to given arguments                                   *)

\* the sequences over S of length at most n
SeqsUpTo(S, n) == UNION {[1..k -> S] : k \in 0..n}

\* most elements of the list page handed to crawlListPage on its own
MaxListLen == 3

\* the elements of such a page: any title outcome, an absolute link to u1, a
\* relative link to u2 or none, and one of the two optional extractions
\* throwing
ListElements ==
    {[titleOut |-> t, link |-> l, dateOut |-> o[1], descOut |-> o[2]] :
        t \in {"throws", "empty", "text"},
        l \in {[abs |-> TRUE, id |-> "u1"], [abs |-> FALSE, id |-> "u2"],
               NoLink, NoHref},
        o \in {<<"throws", "text">>, <<"text", "throws">>}}

\* the method fn has returned output
Returns(output) ==
    /\ ret = Pending
    /\ ret' = <<output>>
    /\ UNCHANGED <<fn, arg>>
    /\ UNCHANGED <<engineVars, storeVars, schedVars, aiVars>>

\* SpecList: crawlListPage on a rendered page of up to MaxListLen elements
InitList ==
    /\ fn = "crawlListPage"
    /\ arg \in [listPage : ListPageConfigs,
                 elements : SeqsUpTo(ListElements, MaxListLen)]
    /\ ret = Pending
    /\ EngineParked /\ StoreParked /\ SchedParked /\ AiParked
CrawlListPageReturns ==
    /\ fn = "crawlListPage"
    /\ Returns(CrawlListPageArticles(arg.listPage, arg.elements))
NextList == CrawlListPageReturns
SpecList == InitList /\ [][NextList]_vars

\* SpecDate: parseDate on null, on the texts of the specification's examples
\* and on every text put together from a prefix, a year, a separator, a
\* month, a separator, a day and a suffix, each well or ill formed
Example1 == <<"2", "0", "2", "4", "nian", "3", "yue", "5", "ri">>
Example2 == <<DatePrefix, "2", "0", "2", "3", "-", "1", "1", "-", "0", "2",
              " ", "dot">>
Example3 == <<"n", "o", "t", " ", "a", " ", "d", "a", "t", "e">>
ComposedTexts ==
    {pre \o y \o s1 \o m \o s2 \o d \o suf :
        pre \in {<<>>, <<DatePrefix>>, <<" ", "x">>},
        y \in {<<"2", "0", "2", "4">>, <<"2", "0", "2", "3">>, <<"0", "2", "4">>},
        s1 \in {<<"-">>, <<"/">>, <<"nian">>, <<"yue">>, <<"-", DatePrefix>>},
        m \in {<<"3">>, <<"0", "3">>, <<"1", "3">>, <<"0">>, <<"2">>},
        s2 \in {<<"-">>, <<"/">>, <<"yue">>},
        d \in {<<"5">>, <<"0", "5">>, <<"3", "0">>, <<"3", "2">>, <<"0">>},
        suf \in {<<>>, <<"ri">>, <<" ", "dot">>, <<"x">>}}
DateTexts ==
    {NullText, Text(<<>>), Text(<<" ">>), Text(<<"dot">>), Text(<<"x">>),
     Text(<<"2", "0", "2", "4">>), Text(Example1), Text(Example2),
     Text(Example3)}
    \cup {Text(t) : t \in ComposedTexts}
InitDate ==
    /\ fn = "parseDate"
    /\ arg \in DateTexts
    /\ ret = Pending
    /\ EngineParked /\ StoreParked /\ SchedParked /\ AiParked
ParseDateReturns ==
    /\ fn = "parseDate"
    /\ \E date \in ParseDate(arg) : Returns(date)
NextDate == ParseDateReturns
SpecDate == InitDate /\ [][NextDate]_vars

\* SpecDetail: crawlDetailPage on one candidate and one rendered detail
\* page, up to its return.  The date texts are null, "", a text that is no
\* date, 2024-3-5, 2023-11-02 and 2024-13-5.
DetailDateTexts ==
    {NullText, Text(<<>>), Text(<<"x">>),
     Text(<<"2", "0", "2", "4", "-", "3", "-", "5">>),
     Text(<<"2", "0", "2", "3", "-", "1", "1", "-", "0", "2">>),
     Text(<<"2", "0", "2", "4", "-", "1", "3", "-", "5">>)}
DetailInputs ==
    [useReadability : BOOLEAN, dateSelector : BOOLEAN,
     listArticle : [title : {"", "T"}, url : {"u1"}, date : DetailDateTexts],
     nav : BOOLEAN, titleOut : TitleOuts, contentOut : ContentOuts,
     dateOut : {"throws", "nomatch", "text"},
     dateText : DetailDateTexts \ {NullText}]
InitDetail ==
    /\ fn = "crawlDetailPage"
    /\ arg \in DetailInputs
    /\ ret = Pending
    /\ EngineParked /\ StoreParked /\ SchedParked /\ AiParked
CrawlDetailPageReturns ==
    /\ fn = "crawlDetailPage"
    /\ LET article == DetailArticle(arg, arg.listArticle.url, arg.listArticle,
                                    arg.nav, arg.titleOut, arg.contentOut)
       IN IF ~article.ok
          THEN Returns([ok |-> FALSE, url |-> "", title |-> "", content |-> "",
                        publish_date |-> NoDate])
          ELSE \E date \in PublishDate(arg.dateSelector, arg.dateOut,
                                       arg.dateText, arg.listArticle.date) :
                  Returns([ok |-> TRUE, url |-> article.url,
                           title |-> article.title, content |-> article.content,
                           publish_date |-> date])
NextDetail == CrawlDetailPageReturns
SpecDetail == InitDetail /\ [][NextDetail]_vars

\* largest page number a pagination of SpecPages names
MaxPageNo == 3

\* SpecPages: getPageUrls on every pagination policy: absent or present,
\* enabled or not, the pattern absent, with or without {page}, maxPages and
\* startPage left out or from 0 to MaxPageNo, nextSelector set or not
PageInputs ==
    [present : BOOLEAN, enabled : BOOLEAN,
     urlPattern : {"none", "placeholder", "plain"},
     maxPages : {Undefined} \cup 0..MaxPageNo,
     startPage : {Undefined} \cup 0..MaxPageNo,
     nextSelector : BOOLEAN]
InitPages ==
    /\ fn = "getPageUrls"
    /\ arg \in PageInputs
    /\ ret = Pending
    /\ EngineParked /\ StoreParked /\ SchedParked /\ AiParked
GetPageUrlsReturns ==
    /\ fn = "getPageUrls"
    /\ Returns(GetPageUrls(arg))
NextPages == GetPageUrlsReturns
SpecPages == InitPages /\ [][NextPages]_vars

-----------------------------------------------------------------------------
(* Properties of the extraction  (SpecCrawl, SpecList, SpecDetail,          *)
(* SpecDate, SpecPages)                                                    *)

\* what crawl() can reject with: the failures of initBrowser and newPage
SessionErrors ==
    {"launch failed", "newContext failed", "context not initialised",
     "newPage failed"}
BelowCap ==
    config.maxArticles = Unset \/ Len(allArticles) < config.maxArticles

\* C21: a list page whose page.goto rejects gives crawlListPage's empty
\* array, a detail page whose page.goto rejects gives null and adds nothing
\* to the batch; neither makes crawl() reject (it rejects only when the
\* browser, its context or a page cannot be opened), and the loops go on to
\* the next candidate and the next list page.
C21_NavigationFailureLosesThePageOnly ==
    /\ [][(ListFetch /\ navFailed')
            => /\ epc' = "extract" /\ error' = NoError
               /\ elsLeft' = 0 /\ listArticles' = <<>>]_vars
    /\ [][(epc = "extract" /\ navFailed)
            => epc' = "itemLoop" /\ listArticles' = <<>>]_vars
    /\ [][(DetailFetch /\ navFailed')
            => /\ epc' = "delay" /\ error' = NoError
               /\ lastDetail' = NoArticle /\ allArticles' = allArticles]_vars
    /\ [](epc = "threw" => error \in SessionErrors)
    /\ [][(navFailed /\ epc = "delay")
            => epc' = "itemLoop" /\ candIdx' = candIdx + 1]_vars
    /\ [][(navFailed /\ epc = "itemLoop" /\ candIdx <= Len(listArticles)
              /\ BelowCap) => epc' = "detail"]_vars
    /\ [][(navFailed /\ epc = "itemLoop" /\ candIdx > Len(listArticles))
            => epc' = "pageLoop" /\ pageIdx' = pageIdx + 1]_vars
    /\ [][(navFailed /\ epc = "pageLoop" /\ pageIdx <= Len(pageUrls)
              /\ BelowCap) => epc' = "list"]_vars
C21_Witness ==
    /\ navFailed
    /\ epc = "list"
    /\ pageIdx = 2
    /\ listVisits = 1
    /\ detailFetches = 0
    /\ error = NoError

\* the element has a title and a link with an href
HasTitleAndLink(el) == el.titleOut = "text" /\ el.link \in Hrefs
\* the elements of the page that have both, in document order
Linked == SelectSeq(arg.elements, HasTitleAndLink)

\* C22: whichever elements of the page fail in their extraction, the
\* candidates returned are those of all the elements that have a title and a
\* link, in document order: the elements after a failing one are processed.
C22_ItemFailureNeverAbortsThePage ==
    (fn = "crawlListPage" /\ HasReturned)
        => /\ Len(Result) = Len(Linked)
           /\ \A i \in 1..Len(Result) : Result[i].url = Linked[i].link.id
C22_Witness ==
    /\ fn = "crawlListPage" /\ HasReturned
    /\ Len(arg.elements) = 3
    /\ arg.elements[1].titleOut = "throws"
    /\ UrlsOf(Result) = <<"u2", "u1">>

\* C23: an element gives a candidate exactly when its title and its URL are
\* both non-empty, whatever becomes of its date and description; every
\* candidate has a title and a URL; and of 3 elements with a title of which
\* exactly 1 has no link, exactly 2 candidates are returned.
C23_EmittedIffTitleAndUrl ==
    (fn = "crawlListPage" /\ HasReturned)
        => LET els == arg.elements
               emitted == {i \in 1..Len(els) :
                              /\ els[i].titleOut = "text"
                              /\ els[i].link \notin {NoLink, NoHref}}
           IN /\ Len(Result) = Cardinality(emitted)
              /\ \A i \in 1..Len(Result) :
                    Result[i].title # "" /\ Result[i].url # ""
              /\ (/\ Len(els) = 3
                  /\ \A i \in 1..3 : els[i].titleOut = "text"
                  /\ Cardinality({i \in 1..3 : els[i].link = NoLink}) = 1
                  /\ \A i \in 1..3 : els[i].link # NoHref)
                 => Len(Result) = 2
C23_Witness ==
    /\ fn = "crawlListPage" /\ HasReturned
    /\ arg.listPage.dateSelector /\ arg.listPage.descriptionSelector
    /\ Len(arg.elements) = 3
    /\ \A i \in 1..3 : arg.elements[i].titleOut = "text"
    /\ arg.elements[2].link = NoLink
    /\ arg.elements[1].dateOut = "throws"
    /\ arg.elements[3].descOut = "throws"
    /\ Len(Result) = 2
    /\ Result[1].date = NoField /\ Result[2].date # NoField

\* C26: whatever parseDate returns is undefined ("no date") or a Date that
\* is a valid calendar date.
C26_ReturnsValidDateOrNoDate ==
    (fn = "parseDate" /\ HasReturned) => (Result = NoDate \/ IsValidDate(Result))

\* C27: parseDate cleans the text first; when the year-month-day pattern
\* matches the cleaned text the result is the Date made of its three groups,
\* whatever new Date(cleaned) would give, and only otherwise the result of
\* new Date(cleaned), or undefined when that is no date.  The three example
\* texts give 2024-03-05, 2023-11-02 and undefined.
C27_CleanThenPatternThenGeneric ==
    (fn = "parseDate" /\ HasReturned)
        => /\ arg = Text(Example1)
                => /\ <<Result.y, Result.m, Result.d>> = <<2024, 3, 5>>
                   /\ IsValidDate(Result)
           /\ arg = Text(Example2)
                => /\ <<Result.y, Result.m, Result.d>> = <<2023, 11, 2>>
                   /\ IsValidDate(Result)
           /\ arg = Text(Example3) => Result = NoDate
           /\ (arg.isNull \/ arg.text = <<>>) => Result = NoDate
           /\ ~(arg.isNull \/ arg.text = <<>>)
                => LET groups == StrictMatch(Cleaned(arg.text))
                   IN IF groups # <<>>
                      THEN \/ Result = InvalidDate
                           \/ /\ Result.y = Num(groups[1])
                              /\ \/ /\ Result.m = Num(groups[2])
                                    /\ Result.d = Num(groups[3])
                                 \/ /\ Num(groups[3])
                                         > DaysIn(Result.y, Num(groups[2]))
                                    /\ Result.m = Num(groups[2]) + 1
                      ELSE Result \in {NoDate, SomeDate}
C27_Witness ==
    /\ fn = "parseDate" /\ HasReturned
    /\ arg = Text(<<DatePrefix>> \o <<"2", "0", "2", "4">> \o <<"-", DatePrefix>>
                  \o <<"0", "3">> \o <<"yue">> \o <<"0", "5">> \o <<" ", "dot">>)
    /\ Result = Date(2024, 3, 5, "utc")

\* C24: when the title extraction throws, matches no element or gives an
\* empty text, and the candidate has a title, the article returned has the
\* candidate's title.
C24_TitleFallsBackToTheCandidate ==
    (/\ fn = "crawlDetailPage" /\ HasReturned /\ Result.ok
     /\ arg.titleOut \in {"throws", "nomatch", "empty"}
     /\ arg.listArticle.title # "")
        => Result.title = arg.listArticle.title

\* what parseDate returns for a text that has one possible result
Normalized(text) == CHOOSE date \in ParseDate(text) : TRUE
\* the text of the detail page's date element, null when there is none
DetailDateText ==
    IF arg.dateSelector /\ arg.dateOut = "text" THEN arg.dateText ELSE NullText

\* C25: the article's publish_date is what parseDate returns for the detail
\* page's date text unless that is undefined, else what parseDate returns
\* for the candidate's date text, which leaves it undefined when that is
\* undefined too; the article is returned in every case.
C25_DetailDateThenCandidateDate ==
    (fn = "crawlDetailPage" /\ HasReturned /\ arg.nav
     /\ ~(arg.useReadability /\ arg.contentOut = "throws"))
        => /\ Result.ok
           /\ Result.publish_date =
                 IF Normalized(DetailDateText) # NoDate
                 THEN Normalized(DetailDateText)
                 ELSE Normalized(arg.listArticle.date)
C25_Witness ==
    /\ fn = "crawlDetailPage" /\ HasReturned
    /\ arg.dateSelector /\ arg.dateOut = "text"
    /\ arg.dateText = Text(<<"x">>)
    /\ arg.listArticle.date = Text(<<"2", "0", "2", "4", "-", "3", "-", "5">>)
    /\ Result.ok
    /\ Result.publish_date = Date(2024, 3, 5, "local")

\* C28: without Readability, when the content extraction matches no element
\* or throws, crawlDetailPage still returns the article, with an empty
\* content, and crawl() does not add it to its batch.
C28_NoContentStillReturnsTheArticle ==
    (/\ fn = "crawlDetailPage" /\ HasReturned
     /\ ~arg.useReadability /\ arg.nav
     /\ arg.contentOut \in {"nomatch", "throws"})
        => /\ Result.ok
           /\ Result.url = arg.listArticle.url
           /\ Result.content = ""
           /\ Accumulate(<<>>, Result) = <<>>
C28_Witness ==
    /\ fn = "crawlDetailPage" /\ HasReturned
    /\ ~arg.useReadability /\ arg.nav
    /\ arg.contentOut = "throws"
    /\ arg.titleOut = "text"
    /\ Result.ok /\ Result.title = "D" /\ Result.content = ""

\* C29: without a pagination, with a disabled one, or with an enabled one
\* that has no URL pattern, getPageUrls returns config.url alone, whatever
\* startPage, maxPages and nextSelector are.
C29_NoPatternGivesTheSeedUrl ==
    (/\ fn = "getPageUrls" /\ HasReturned
     /\ (~arg.present \/ ~arg.enabled \/ arg.urlPattern = "none"))
        => Result = <<SeedUrl>>
C29_Witness ==
    /\ fn = "getPageUrls" /\ HasReturned
    /\ arg.present /\ ~arg.enabled
    /\ arg.urlPattern = "placeholder"
    /\ arg.maxPages = 3 /\ arg.startPage = 2 /\ arg.nextSelector
    /\ Result = <<SeedUrl>>

\* C30: with pagination enabled and a pattern holding the placeholder,
\* getPageUrls returns the pattern's URL for each page number from startPage
\* (1 when left out) to maxPages, in increasing order and nothing else.
C30_OneUrlPerPageOfTheRange ==
    (/\ fn = "getPageUrls" /\ HasReturned
     /\ arg.present /\ arg.enabled /\ arg.urlPattern = "placeholder"
     /\ arg.maxPages # Undefined)
        => LET first == IF arg.startPage = Undefined THEN 1 ELSE arg.startPage
               count == IF arg.maxPages >= first
                        THEN arg.maxPages - first + 1 ELSE 0
           IN /\ Len(Result) = count
              /\ \A k \in 1..Len(Result) :
                    Result[k] = UrlOf("pattern", first + k - 1)

-----------------------------------------------------------------------------
(* Properties of failure handling, sessions and storage                    *)
(* (SpecCrawl, SpecEngine, SpecSched, SpecStore, SpecJson, SpecBatch,      *)
(* SpecCron, SpecPages, SpecCrawlFair)                                     *)

\* C31: a navigation that fails is attempted again before its page is given
\* up.  crawl() has given a list page up when crawlListPage is past its
\* page.goto with nothing to extract, and a candidate when crawlDetailPage
\* has returned null: by then the page has been fetched at least twice, so
\* the fetches of the run outnumber the pages (on the first list page: the
\* candidates) reached so far.
C31_FailedNavigationIsTriedAgain ==
    /\ (navFailed /\ epc = "extract") => listVisits > pageIdx
    /\ (navFailed /\ epc = "delay" /\ pageIdx = 1) => detailFetches > candIdx

\* C32: of two saveIfNotExists calls for the same URL that overlap, the URL
\* being stored when neither of them began, exactly one returns true.
C32_OverlappingCallsCountTheUrlOnce ==
    \A i, j \in 1..Len(hist) :
        (/\ i < j
         /\ hist[i].url = hist[j].url
         /\ ~hist[i].known /\ ~hist[j].known)
            => hist[i].result # hist[j].result

\* C33: when a crawlWebsite run records its CrawlRunLog, the browser session
\* of the run's engine has been released: close() has completed, no browser
\* launched by the run is still open and the engine holds neither a browser
\* nor a context; this includes the runs whose crawl() rejected.
C33_SessionReleasedBeforeTheLog ==
    spc = "log" => (sessions = 0 /\ ~browser /\ ~context)

\* C34: between the calls of initBrowser, crawlListPage, crawlDetailPage
\* and close, the engine's browser and browsing context are both set or
\* both unset, also after a launch or a context creation that failed.
C34_BrowserAndContextSetTogether ==
    browser <=> context

\* the URLs the store held when the current crawlWebsite run began: those it
\* holds now less those this run has inserted
KnownAtRunStart ==
    {store[k].url : k \in 1..Len(store)} \ inserted

\* C35: when a run is about to log status "success", articles_found is the
\* length of the batch crawl() returned and articles_saved is the number of
\* distinct URLs of the batch that the store did not hold when the run
\* began; so articles_saved is at most articles_found.
C35_SuccessCountsFoundAndNew ==
    (spc = "log" /\ status = "success") =>
        /\ articlesFound = Len(articles)
        /\ articlesSaved =
              Cardinality({articles[k].url : k \in 1..Len(articles)}
                             \ KnownAtRunStart)
        /\ articlesSaved <= articlesFound
\* C35 witness: the second site's run found two articles of different URLs,
\* one of them stored by the first site's run, and logs success with 2 and 1
C35_Witness ==
    /\ spc = "log" /\ status = "success"
    /\ siteIdx = 2
    /\ Len(articles) = 2
    /\ articles[1].url # articles[2].url
    /\ articles[1].url \in KnownAtRunStart
    /\ articlesFound = 2 /\ articlesSaved = 1

-----------------------------------------------------------------------------
(* JsonArticleRepository over data/articles.json  (SpecJson)               *)
(* store is the content of the file: its records, dates as the day written *)
(* by formatDate.  arg.tz is the time zone of the process, west of UTC or  *)
(* not; arg.url and arg.reads are the URL and the read outcomes of the     *)
(* latest call.                                                            *)

\* the local calendar day of `new Date()` during the calls
Today == 0
TimeZones == {"west", "utcOrEast"}

\* new Date(): the present instant
Now == [at |-> "now", day |-> Today]
\* new Date("YYYY-MM-DD"): midnight UTC of that day
UtcMidnight(d) == [at |-> "utcMidnight", day |-> d]

\* formatDate(date): the local calendar day of the instant, which for
\* midnight UTC is the day before in a zone west of UTC
FormatDate(date, tz) ==
    IF date.at = "utcMidnight" /\ tz = "west" THEN date.day - 1 ELSE date.day

\* readJson(ARTICLES_FILE): [] when the file is missing or when reading or
\* parsing it throws (ok = FALSE), else the records with their date strings
\* revived as Date
ReadJson(file, ok) ==
    IF ~ok THEN <<>>
    ELSE [k \in 1..Len(file) |->
            [file[k] EXCEPT !.created_at = UtcMidnight(@)]]

\* writeJson(ARTICLES_FILE, data): convertDatesToStrings, then the file is
\* replaced by the data
WriteJson(data, tz) ==
    [k \in 1..Len(data) |->
        [data[k] EXCEPT !.created_at = FormatDate(@, tz)]]

\* save(article): read, update in place or push, write
JsonSave(file, art, ok, tz) ==
    LET data == ReadJson(file, ok)
        i == FindIndex(data, art.url)
    IN WriteJson(
         IF i > 0
         THEN [data EXCEPT ![i] = [@ EXCEPT !.title = art.title,
                                           !.content = art.content,
                                           !.updated = TRUE]]
         ELSE Append(data,
                     [url |-> art.url, title |-> art.title,
                      content |-> art.content, summary |-> NoSummary,
                      updated |-> FALSE, created_at |-> Now]),
         tz)

\* updateSummary(url, summary): read; if the URL is found, set its summary
\* and write
JsonUpdateSummary(file, url, summary, ok, tz) ==
    LET data == ReadJson(file, ok)
        i == FindIndex(data, url)
    IN IF i > 0
       THEN WriteJson([data EXCEPT ![i] = [@ EXCEPT !.summary = summary,
                                                   !.updated = TRUE]],
                      tz)
       ELSE file

JsonCalled(method, url, reads) ==
    /\ ncalls < MaxCalls
    /\ ncalls' = ncalls + 1
    /\ fn' = method
    /\ arg' = [tz |-> arg.tz, url |-> url, reads |-> reads]
    /\ UNCHANGED <<storageType, call, hist>>
    /\ UNCHANGED <<engineVars, schedVars, aiVars>>

\* await repo.save(article)
JsonSaveCall ==
    \E art \in ArticleInputs, ok \in BOOLEAN :
        /\ JsonCalled("save", art.url, <<ok>>)
        /\ store' = JsonSave(store, art, ok, arg.tz)
        /\ ret' = <<"void">>

\* await repo.saveIfNotExists(article): existsByUrl reads the file, save
\* reads it again
JsonSaveIfNotExistsCall ==
    \E art \in ArticleInputs, ok1 \in BOOLEAN, ok2 \in BOOLEAN :
        IF ExistsByUrl(ReadJson(store, ok1), art.url)
        THEN /\ JsonCalled("saveIfNotExists", art.url, <<ok1>>)
             /\ store' = store
             /\ ret' = <<FALSE>>
        ELSE /\ JsonCalled("saveIfNotExists", art.url, <<ok1, ok2>>)
             /\ store' = JsonSave(store, art, ok2, arg.tz)
             /\ ret' = <<TRUE>>

\* await repo.updateSummary(url, summary)
JsonUpdateSummaryCall ==
    \E u \in Urls, sm \in Summaries, ok \in BOOLEAN :
        /\ JsonCalled("updateSummary", u, <<ok>>)
        /\ store' = JsonUpdateSummary(store, u, sm, ok, arg.tz)
        /\ ret' = <<"void">>

\* SpecJson: one process calling the JSON repository, from an empty file
InitJson ==
    /\ storageType = "json"
    /\ store = <<>>
    /\ call = [c \in Callers |-> Idle]
    /\ hist = <<>>
    /\ ncalls = 0
    /\ fn = "none"
    /\ arg \in [tz : TimeZones, url : {""}, reads : {<<>>}]
    /\ ret = Pending
    /\ EngineParked /\ SchedParked /\ AiParked
NextJson ==
    \/ JsonSaveCall
    \/ JsonSaveIfNotExistsCall
    \/ JsonUpdateSummaryCall
SpecJson == InitJson /\ [][NextJson]_vars

\* C36: a save, saveIfNotExists or updateSummary call of the JSON
\* repository for URL u leaves every stored record of another URL in the
\* file, unchanged, whether reading the file succeeded or not.
C36_OtherRecordsStayAsTheyWere ==
    [][\A k \in 1..Len(store) :
          store[k].url # arg'.url
             => \E j \in 1..Len(store') : store'[j] = store[k]]_vars

-----------------------------------------------------------------------------
(* PostgresArticleRepository.saveBatch  (SpecBatch)                        *)
(* store is the committed content of the articles table.  BEGIN, COMMIT    *)
(* and ROLLBACK are sent on the client got from db.getClient(); existsByUrl*)
(* and save send their statements through db.query, that is pool.query,   *)
(* which runs each on another connection of the pool and commits it at     *)
(* once: the client's transaction holds no statement.                     *)

\* the tables a saveBatch call can find: empty, or holding one article
BatchTables == {<<>>} \cup {<<NewRecord(a)>> : a \in ArticleInputs}
BatchInputs == SeqsUpTo(ArticleInputs, MaxBatch)
BatchResult(threw, count) == [threw |-> threw, count |-> count]

BatchStep(stage, idxNow, countNow) ==
    /\ call' = [call EXCEPT ![1].stage = stage, ![1].idx = idxNow,
                             ![1].count = countNow]
    /\ UNCHANGED <<fn, arg, ret>>

\* const client = await this.db.getClient(); await client.query('BEGIN')
SaveBatchBegin ==
    /\ call[1].op = "idle"
    /\ ret = Pending
    /\ \E ok \in BOOLEAN :
         call' = [call EXCEPT ![1] =
                     InCall("saveBatch", IF ok THEN "exists" ELSE "rollback",
                            arg.batch, <<>>)]
    /\ UNCHANGED <<storageType, store, hist, ncalls>>
    /\ UNCHANGED <<fn, arg, ret>>
    /\ UNCHANGED <<engineVars, schedVars, aiVars>>

\* const exists = await this.existsByUrl(article.url): a pool query
SaveBatchExists ==
    /\ call[1].op = "saveBatch"
    /\ call[1].stage = "exists"
    /\ call[1].idx <= Len(call[1].batch)
    /\ \E ok \in BOOLEAN :
         IF ~ok THEN BatchStep("rollback", call[1].idx, call[1].count)
         ELSE IF ExistsByUrl(store, call[1].batch[call[1].idx].url)
              THEN BatchStep("exists", call[1].idx + 1, call[1].count)
              ELSE BatchStep("save", call[1].idx, call[1].count)
    /\ UNCHANGED <<storageType, store, hist, ncalls>>
    /\ UNCHANGED <<engineVars, schedVars, aiVars>>

\* await this.save(article); savedCount++ : the upsert as a pool query,
\* committed when it returns; when it rejects the row is not written
SaveBatchInsert ==
    /\ call[1].op = "saveBatch"
    /\ call[1].stage = "save"
    /\ \E ok \in BOOLEAN :
         IF ok
         THEN /\ store' = SaveRec("postgres", store,
                                  call[1].batch[call[1].idx])
              /\ BatchStep("exists", call[1].idx + 1, call[1].count + 1)
         ELSE /\ store' = store
              /\ BatchStep("rollback", call[1].idx, call[1].count)
    /\ UNCHANGED <<storageType, hist, ncalls>>
    /\ UNCHANGED <<engineVars, schedVars, aiVars>>

\* await client.query('COMMIT'); client.release(); return savedCount
SaveBatchCommit ==
    /\ call[1].op = "saveBatch"
    /\ call[1].stage = "exists"
    /\ call[1].idx > Len(call[1].batch)
    /\ \E ok \in BOOLEAN :
         IF ok
         THEN /\ call' = [call EXCEPT ![1].stage = "returned"]
              /\ ret' = <<BatchResult(FALSE, call[1].count)>>
         ELSE /\ call' = [call EXCEPT ![1].stage = "rollback"]
              /\ ret' = ret
    /\ UNCHANGED <<fn, arg>>
    /\ UNCHANGED <<storageType, store, hist, ncalls>>
    /\ UNCHANGED <<engineVars, schedVars, aiVars>>

\* catch: await client.query('ROLLBACK'); throw error.  The transaction of
\* the client is empty, so the table keeps what the pool queries wrote.
SaveBatchRollback ==
    /\ call[1].op = "saveBatch"
    /\ call[1].stage = "rollback"
    /\ call' = [call EXCEPT ![1].stage = "threw"]
    /\ ret' = <<BatchResult(TRUE, call[1].count)>>
    /\ store' = store
    /\ UNCHANGED <<fn, arg>>
    /\ UNCHANGED <<storageType, hist, ncalls>>
    /\ UNCHANGED <<engineVars, schedVars, aiVars>>

\* SpecBatch: one saveBatch(articles) call on a Postgres table
InitBatch ==
    /\ storageType = "postgres"
    /\ store \in BatchTables
    /\ call = [c \in Callers |-> Idle]
    /\ hist = <<>>
    /\ ncalls = 0
    /\ fn = "saveBatch"
    /\ \E b \in BatchInputs : arg = [batch |-> b, before |-> store]
    /\ ret = Pending
    /\ EngineParked /\ SchedParked /\ AiParked
NextBatch ==
    \/ SaveBatchBegin
    \/ SaveBatchExists
    \/ SaveBatchInsert
    \/ SaveBatchCommit
    \/ SaveBatchRollback
SpecBatch == InitBatch /\ [][NextBatch]_vars

\* C37: a saveBatch call that throws leaves the table as it was when the
\* call began (nothing the call saved remains), and a call that returns
\* gives the number of URLs of the batch that the table did not hold
\* before.
C37_SaveBatchIsAllOrNothing ==
    (fn = "saveBatch" /\ HasReturned) =>
        IF Result.threw
        THEN store = arg.before
        ELSE Result.count =
                Cardinality({arg.batch[k].url : k \in 1..Len(arg.batch)}
                               \ {arg.before[k].url :
                                     k \in 1..Len(arg.before)})

-----------------------------------------------------------------------------
(* Scheduler.start, stop, getStatus and the cron task  (SpecCron)          *)
(* fn is the latest method called and ret what it returned.                *)

\* most tasks cron.schedule is asked for, most callbacks fired
MaxStarts == 5
MaxTicks == 4

Entry(name, task) == [name |-> name, task |-> task]
\* this.tasks.set(name, task)
MapSetTask(map, name, task) ==
    {e \in map : e.name # name} \cup {Entry(name, task)}

\* stop(): task.stop() for every entry, then this.tasks.clear():
\* <<tasks', scheduled'>>
Stop(map, live) == <<{}, live \ {e.task : e \in map}>>

\* (mutant) a start that schedules the new task without this.stop()
StartWithoutStop(map, live, task, ok) ==
    IF ok THEN <<MapSetTask(map, "default", task), live \cup {task}>>
    ELSE <<map, live>>

\* start() with the scheduler enabled: this.stop(), cron.schedule(...),
\* this.tasks.set("default", task); ok: whether cron.schedule accepts the
\* configured expression (it throws on an invalid one).
\* <<tasks', scheduled'>>
Start(map, live, task, ok) ==
    LET stopped == Stop(map, live)
    IN IF ok
       THEN <<MapSetTask(stopped[1], "default", task),
              stopped[2] \cup {task}>>
       ELSE stopped

\* getStatus()
GetStatus(map) ==
    [running |-> Cardinality(map) > 0, taskCount |-> Cardinality(map)]

CronFrame ==
    /\ UNCHANGED <<sites, apiKey, spc, siteIdx, articles, articlesFound,
                   articlesSaved, status, errorMessage, idx, summaryMap,
                   summarized, inserted, raised, logs>>
    /\ UNCHANGED <<engineVars, storeVars, aiVars, arg>>

\* scheduler.start()
SchedulerStart ==
    /\ fn' = "start"
    /\ IF ~schedulerEnabled
       THEN /\ ret' = <<"void">>
            /\ UNCHANGED <<tasks, scheduled, created>>
       ELSE /\ created < MaxStarts
            /\ created' = created + 1
            /\ \E ok \in BOOLEAN :
                 LET r == Start(tasks, scheduled, created + 1, ok)
                 IN /\ tasks' = r[1]
                    /\ scheduled' = r[2]
                    /\ ret' = <<IF ok THEN "void" ELSE "threw">>
    /\ UNCHANGED <<schedulerEnabled, ticks>>
    /\ CronFrame

\* scheduler.stop()
SchedulerStop ==
    /\ fn' = "stop"
    /\ ret' = <<"void">>
    /\ tasks' = Stop(tasks, scheduled)[1]
    /\ scheduled' = Stop(tasks, scheduled)[2]
    /\ UNCHANGED <<schedulerEnabled, created, ticks>>
    /\ CronFrame

\* scheduler.getStatus()
SchedulerGetStatus ==
    /\ fn' = "getStatus"
    /\ ret' = <<GetStatus(tasks)>>
    /\ UNCHANGED cronVars
    /\ CronFrame

\* the schedule of a task that is not stopped comes due: its callback runs
CronTick ==
    /\ scheduled # {}
    /\ ticks < MaxTicks
    /\ ticks' = ticks + 1
    /\ UNCHANGED <<schedulerEnabled, tasks, scheduled, created>>
    /\ UNCHANGED <<fn, ret>>
    /\ CronFrame

\* SpecCron: the Scheduler singleton, started and stopped at will
InitCron ==
    /\ schedulerEnabled \in BOOLEAN
    /\ tasks = {}
    /\ scheduled = {}
    /\ created = 0
    /\ ticks = 0
    /\ sites = <<>>
    /\ apiKey = FALSE
    /\ spc = "none"
    /\ siteIdx = 1
    /\ articles = <<>>
    /\ articlesFound = 0
    /\ articlesSaved = 0
    /\ status = "success"
    /\ errorMessage = NoError
    /\ idx = 1
    /\ summaryMap = <<>>
    /\ summarized = <<>>
    /\ inserted = {}
    /\ raised = NoError
    /\ logs = <<>>
    /\ EngineParked /\ StoreParked /\ AiParked /\ UnitParked
NextCron ==
    \/ SchedulerStart
    \/ SchedulerStop
    \/ SchedulerGetStatus
    \/ CronTick
SpecCron == InitCron /\ [][NextCron]_vars

\* C38: whatever start and stop calls have been made, at most one cron
\* task is registered and it is the one entry of the task map; after a
\* start with the scheduler enabled the registered task is the one that
\* call created, any earlier one being stopped; after a stop none is
\* registered; and getStatus().running is true exactly when one is.
C38_AtMostOneCronTask ==
    /\ Cardinality(scheduled) <= 1
    /\ scheduled = {e.task : e \in tasks}
    /\ Cardinality(tasks) = Cardinality(scheduled)
    /\ (fn = "start" /\ schedulerEnabled /\ ret = <<"void">>)
          => scheduled = {created}
    /\ fn = "stop" => scheduled = {}
    /\ fn = "getStatus" => (Result.running <=> scheduled # {})
    /\ ~schedulerEnabled => scheduled = {}
\* C38 witness: a second start has replaced the task of the first, whose
\* callback had fired, and getStatus reports it running with one task
C38_Witness ==
    /\ fn = "getStatus"
    /\ Result = [running |-> TRUE, taskCount |-> 1]
    /\ created = 2
    /\ scheduled = {2}
    /\ ticks = 1

\* C39: with pagination enabled and a URL pattern, maxPages = 0 sets no
\* limit on the list pages: whatever page number from startPage (1 when
\* left out or 0) on is looked at, getPageUrls has returned its URL.
C39_ZeroMaxPagesIsNoLimit ==
    (/\ fn = "getPageUrls" /\ HasReturned
     /\ arg.present /\ arg.enabled /\ arg.urlPattern = "placeholder"
     /\ arg.maxPages = 0)
        => \A n \in OrDefault(arg.startPage, 1)..MaxPageNo :
              \E k \in 1..Len(Result) : Result[k] = UrlOf("pattern", n)

\* C40 (as stated): every crawl() run returns a batch.
C40_Original_CrawlReachesDone ==
    <>(epc = "done")

\* C40: every crawl() run terminates, with or without a cap: it returns a
\* batch, unless the browser, its context or a page could not be opened, in
\* which case it rejects with that error.
C40_CrawlReturnsOrRejects ==
    <>(\/ epc = "done"
       \/ (epc = "threw" /\ error \in SessionErrors))
\* C40 witness: a run without a cap has returned after visiting every list
\* page of a paginated site and fetching a candidate, one navigation having
\* failed on the way
C40_Witness ==
    /\ epc = "done"
    /\ config.maxArticles = Unset
    /\ Len(pageUrls) = MaxPages
    /\ listVisits = MaxPages
    /\ detailFetches >= 1
    /\ navFailed

====
